---------------------------- MODULE Spec2Model ----------------------------
(***************************************************************************)
(* A model of src/api/validate-html.js, the HTML/JS repair pipeline.       *)
(*                                                                         *)
(* Text is a sequence of one-character strings, indexed from 1 in TLA+;    *)
(* every index the program stores (an Issue's index, a regex match         *)
(* position) is kept 0-based as in the JavaScript source.                  *)
(***************************************************************************)
EXTENDS Integers, Sequences, FiniteSets, TLC

VARIABLES
    pc,          \* position of the operation under way
    source,      \* script content handed to the delimiter detector/patcher
    issues,      \* result of detectUnbalancedParentheses(source)
    patched,     \* result {fixed, fixCount} of fixUnbalanced(source)
    html,        \* document handed to the pass under way
    matches,     \* extractAndFixScripts: the collected script matches
    cursor,      \* extractAndFixScripts: number of the match processed next
    result,      \* the pass's working copy of the document
    totalFixes,  \* the pass's fix count so far
    oracleCalls, \* requests sent to the suggestion oracle so far
    block,       \* what the last loop iteration did (console output)
    reply,       \* the suggestion oracle's answer to getSmartFixFromAI
    env,         \* the command line and the paths that may not be written
    disk,        \* the file system: what each path holds
    proc,        \* processHtmlFile: its locals and whether it is running
    writeLog,    \* every fs.writeFileSync of the run, in order
    exitCode     \* the code the process exited with

parenVars == <<source, issues, patched, reply>>

scriptVars == <<html, matches, cursor, result, totalFixes, oracleCalls, block>>

fileVars == <<env, disk, proc, writeLog, exitCode>>

vars == <<pc, parenVars, scriptVars, fileVars>>

---------------------------------------------------------------------------
(* Bounds *)

MaxTokens == 3

MaxBlocks == 2

MaxFixes == 1

MaxSpread == 4

MaxPieces == 2

MaxParts == 3

MaxDepth == 6

MaxItems == 2

MaxOracleFixes == 1

\* suggested fixes in one reply to the patch applier
MaxPatches == 2

\* lines of a script handed to the block commenter
MaxLines == 3

---------------------------------------------------------------------------
(* JavaScript string primitives *)

Min(a, b) == IF a < b THEN a ELSE b

Max(a, b) == IF a > b THEN a ELSE b

\* String.prototype.slice(a, b) for non-negative a, b (0-based, b exclusive)
Slice(s, a, b) == SubSeq(s, Min(a, Len(s)) + 1, Min(b, Len(s)))

\* String.prototype.slice(a)
SliceFrom(s, a) == SubSeq(s, Min(a, Len(s)) + 1, Len(s))

\* does t occur in s at 0-based position i
OccursAt(s, t, i) ==
    /\ i >= 0
    /\ i + Len(t) <= Len(s)
    /\ \A k \in 1..Len(t) : s[i + k] = t[k]

\* String.prototype.indexOf(t, from): 0-based, -1 when absent
IndexOfFrom(s, t, from) ==
    LET hits == {i \in from..(Len(s) - Len(t)) : OccursAt(s, t, i)}
    IN  IF hits = {} THEN -1
        ELSE CHOOSE i \in hits : \A j \in hits : i <= j

IndexOf(s, t) == IndexOfFrom(s, t, 0)

\* String.prototype.includes(t)
Includes(s, t) == \E i \in 0..(Len(s) - Len(t)) : OccursAt(s, t, i)

\* String.prototype.replace(pat, rep) with a string pattern: the first
\* occurrence only.  No replacement text of the model contains "$", so the
\* special replacement patterns ($&, $1, ...) do not arise.
ReplaceFirst(s, pat, rep) ==
    LET i == IndexOf(s, pat)
    IN  IF i = -1 THEN s
        ELSE Slice(s, 0, i) \o rep \o SliceFrom(s, i + Len(pat))

\* number of occurrences of the character c in s
CountChar(s, c) == Cardinality({i \in 1..Len(s) : s[i] = c})

RECURSIVE Flatten(_)
\* concatenation of a sequence of texts
Flatten(ts) == IF ts = <<>> THEN <<>> ELSE Head(ts) \o Flatten(Tail(ts))

\* all texts made of at most n pieces drawn from the set toks
TextsOver(toks, n) ==
    UNION {{Flatten(ts) : ts \in [1..k -> toks]} : k \in 0..n}

\* \s of the regular expressions and String.prototype.trim
IsSpace(c) == c \in {" ", "\n", "\t", "\r"}

RECURSIVE TrimStart(_)
TrimStart(s) ==
    IF s # <<>> /\ IsSpace(Head(s)) THEN TrimStart(Tail(s)) ELSE s

RECURSIVE TrimEnd(_)
TrimEnd(s) ==
    IF s # <<>> /\ IsSpace(s[Len(s)])
    THEN TrimEnd(SubSeq(s, 1, Len(s) - 1)) ELSE s

\* String.prototype.trim
Trim(s) == TrimEnd(TrimStart(s))

\* String.prototype.endsWith(t)
EndsWith(s, t) == Len(t) <= Len(s) /\ OccursAt(s, t, Len(s) - Len(t))

RECURSIVE Split(_, _)
\* String.prototype.split(c) for a one-character separator: never empty
Split(s, c) ==
    LET i == IndexOf(s, <<c>>)
    IN  IF i = -1 THEN <<s>>
        ELSE <<Slice(s, 0, i)>> \o Split(SliceFrom(s, i + 1), c)

RECURSIVE Join(_, _)
\* Array.prototype.join(c)
Join(lines, c) ==
    IF lines = <<>> THEN <<>>
    ELSE IF Len(lines) = 1 THEN lines[1]
    ELSE lines[1] \o <<c>> \o Join(Tail(lines), c)

---------------------------------------------------------------------------
(* Balanced-delimiter detector and deterministic patcher *)

ShaderMarkers == {
    <<"S", "h", "a", "d", "e", "r", "M", "a", "t", "e", "r", "i", "a", "l">>,
    <<"v", "e", "r", "t", "e", "x", "S", "h", "a", "d", "e", "r">>,
    <<"f", "r", "a", "g", "m", "e", "n", "t", "S", "h", "a", "d", "e", "r">>,
    <<"g", "l", "_", "F", "r", "a", "g", "C", "o", "l", "o", "r">>,
    <<"u", "n", "i", "f", "o", "r", "m", " ">>,
    <<"v", "a", "r", "y", "i", "n", "g", " ">>}

\* a detector that knows ShaderMaterial only
HasShaderMaterialOnly(src) ==
    Includes(src, <<"S", "h", "a", "d", "e", "r", "M", "a", "t", "e", "r", "i", "a", "l">>)

HasShaderMarker(src) == \E m \in ShaderMarkers : Includes(src, m)

\* the loop body with the pop left out: a ")" never closes a "("
ScanStepNoPop(src, i, st) ==
    LET char == src[i + 1] IN
    IF char = "(" THEN
        [stack |-> Append(st.stack, i), positions |-> st.positions]
    ELSE IF char = ")" /\ Len(st.stack) = 0 THEN
        [stack |-> st.stack,
         positions |-> Append(st.positions,
                           [type |-> "extra-close", index |-> i])]
    ELSE st

\* one iteration of the for loop over source[i]
ScanStep(src, i, st) ==
    LET char == src[i + 1] IN
    IF char = "(" THEN
        [stack |-> Append(st.stack, i), positions |-> st.positions]
    ELSE IF char = ")" THEN
        IF Len(st.stack) = 0 THEN
            [stack |-> st.stack,
             positions |-> Append(st.positions,
                               [type |-> "extra-close", index |-> i])]
        ELSE
            [stack |-> SubSeq(st.stack, 1, Len(st.stack) - 1),
             positions |-> st.positions]
    ELSE st

RECURSIVE ScanRange(_, _, _, _)
\* the iterations lo .. hi-1 of the for loop, in order (evaluated by halves
\* to keep the evaluation shallow)
ScanRange(src, lo, hi, st) ==
    IF lo >= hi THEN st
    ELSE IF hi = lo + 1 THEN ScanStep(src, lo, st)
    ELSE LET mid == (lo + hi) \div 2
             first == ScanRange(src, lo, mid, st)
         IN  IF Len(first.stack) >= 0 THEN ScanRange(src, mid, hi, first)
             ELSE st

\* the for loop over source[i]; stack and positions are sequences
ScanParens(src) ==
    ScanRange(src, 0, Len(src), [stack |-> <<>>, positions |-> <<>>])

\* the detector with the unclosed "(" reported before the stray ")"
detectUnbalancedParenthesesStackFirst(src) ==
    IF HasShaderMarker(src) THEN <<>>
    ELSE LET r == ScanParens(src)
         IN  [k \in 1..Len(r.stack) |->
                 [type |-> "missing-close", index |-> r.stack[k]]]
             \o r.positions

detectUnbalancedParentheses(src) ==
    IF HasShaderMarker(src) THEN <<>>
    ELSE LET r == ScanParens(src)
         IN  r.positions \o
             [k \in 1..Len(r.stack) |->
                 [type |-> "missing-close", index |-> r.stack[k]]]

RemovedMarker ==
    <<"/", "*", " ", "r", "e", "m", "o", "v", "e", "d", " ", "e", "x", "t",
      "r", "a", " ", ")", " ", "*", "/">>

RECURSIVE ApplyParenFixes(_, _, _, _)
\* the for loop of fixUnbalanced over parenFixes, from fix number k
ApplyParenFixes(fixedScript, parenFixes, k, offset) ==
    IF k > Len(parenFixes) THEN fixedScript
    ELSE LET fix == parenFixes[k] IN
         IF fix.type = "missing-close" THEN
             ApplyParenFixes(
                 Slice(fixedScript, 0, fix.index + 1 + offset) \o <<")">>
                     \o SliceFrom(fixedScript, fix.index + 1 + offset),
                 parenFixes, k + 1, offset + 1)
         ELSE IF fix.type = "extra-close" THEN
             ApplyParenFixes(
                 Slice(fixedScript, 0, fix.index + offset) \o RemovedMarker
                     \o SliceFrom(fixedScript, fix.index + 1 + offset),
                 parenFixes, k + 1, offset + Len(RemovedMarker) - 1)
         ELSE ApplyParenFixes(fixedScript, parenFixes, k + 1, offset)

\* acornLoose.parse is error-tolerant and returns for every string ("acorn-
\* loose shouldn't throw"), so the catch branch of fixUnbalanced is not taken.
fixUnbalanced(script) ==
    LET parenFixes == detectUnbalancedParentheses(script)
    IN  [fixed |-> ApplyParenFixes(script, parenFixes, 1, 0),
         fixCount |-> Len(parenFixes)]

---------------------------------------------------------------------------
(* Suggestion-assisted patch applier *)

\* the matches divided by the length of the shorter string
calculateStringSimilarityByShorter(str1, str2) ==
    LET longer == IF Len(str1) > Len(str2) THEN str1 ELSE str2
        shorter == IF Len(str1) > Len(str2) THEN str2 ELSE str1
        matchCount ==
            Cardinality({i \in 1..Len(shorter) : Includes(longer, <<shorter[i]>>)})
    IN  IF Len(shorter) = 0 THEN [num |-> 1, den |-> 1]
        ELSE [num |-> matchCount, den |-> Len(shorter)]

\* calculateStringSimilarity: matches / longer.length, kept as the exact
\* fraction [num, den]; 1.0 when both strings are empty
calculateStringSimilarity(str1, str2) ==
    LET longer == IF Len(str1) > Len(str2) THEN str1 ELSE str2
        shorter == IF Len(str1) > Len(str2) THEN str2 ELSE str1
        matchCount ==
            Cardinality({i \in 1..Len(shorter) : Includes(longer, <<shorter[i]>>)})
    IN  IF Len(longer) = 0 THEN [num |-> 1, den |-> 1]
        ELSE [num |-> matchCount, den |-> Len(longer)]

\* similarity > 0.7: for lengths far below 2^53 the double quotient exceeds
\* the double 0.7 exactly when the fraction exceeds 7/10
\* the comparison written >= instead of >
AtOrAboveThreshold(similarity) == 10 * similarity.num >= 7 * similarity.den

AboveThreshold(similarity) == 10 * similarity.num > 7 * similarity.den

\* lineIndices.get(index) || 0: the line holding the character at index
LineOfIndex(script, index) ==
    Cardinality({i \in 1..Min(index, Len(script)) : script[i] = "\n"})

\* issueDescriptions: type and 1-based line number of every Issue
IssueDescriptions(script, iss) ==
    [k \in 1..Len(iss) |->
        [type |-> iss[k].type,
         lineNumber |-> LineOfIndex(script, iss[k].index) + 1]]

\* originalLine.replace(/\)([^)]*$)/, '$1'): drop the last ")"
RemoveLastClose(line) ==
    LET closes == {i \in 1..Len(line) : line[i] = ")"}
    IN  IF closes = {} THEN line
        ELSE LET last == CHOOSE i \in closes : \A j \in closes : j <= i
             IN  SubSeq(line, 1, last - 1) \o SubSeq(line, last + 1, Len(line))

\* lines 241-266: the fixes extracted from the oracle's reply
\*   fenced reply: JSON.parse of the fenced text; otherwise the bare-array
\*   regex, which needs an object inside the brackets
ExtractFixes(response) ==
    IF response.fenced THEN
        IF response.body = "array" THEN [parsed |-> TRUE, fixes |-> response.fixes]
        ELSE IF response.body = "object" THEN [parsed |-> TRUE, fixes |-> <<>>]
        ELSE [parsed |-> FALSE, fixes |-> <<>>]
    ELSE
        IF response.body = "array" /\ response.fixes # <<>>
        THEN [parsed |-> TRUE, fixes |-> response.fixes]
        ELSE [parsed |-> FALSE, fixes |-> <<>>]

\* the forEach body with the similarity test tried before the substring test
\* and no type-directed fallback
ApplyOneFixFuzzyFirst(lines, fix, descriptions) ==
    LET lineIndex == fix.lineNumber - 1 IN
    IF lineIndex >= 0 /\ lineIndex < Len(lines) THEN
        LET originalLine == lines[lineIndex + 1] IN
        IF AboveThreshold(calculateStringSimilarity(originalLine, fix.original)) THEN
            [line |-> fix.fixed, counted |-> 1, how |-> "fuzzy"]
        ELSE IF Includes(originalLine, fix.original) THEN
            [line |-> ReplaceFirst(originalLine, fix.original, fix.fixed),
             counted |-> 1, how |-> "exact"]
        ELSE [line |-> originalLine, counted |-> 0, how |-> "not-found"]
    ELSE [line |-> <<>>, counted |-> 0, how |-> "invalid-line"]

\* the body of fixesJson.forEach for one fix: the new line and what was logged
ApplyOneFix(lines, fix, descriptions) ==
    LET lineIndex == fix.lineNumber - 1 IN
    IF lineIndex >= 0 /\ lineIndex < Len(lines) THEN
        LET originalLine == lines[lineIndex + 1] IN
        IF Includes(originalLine, fix.original) THEN
            [line |-> ReplaceFirst(originalLine, fix.original, fix.fixed),
             counted |-> 1, how |-> "exact"]
        ELSE IF AboveThreshold(calculateStringSimilarity(originalLine, fix.original)) THEN
            [line |-> fix.fixed, counted |-> 1, how |-> "fuzzy"]
        ELSE
            LET lineIssues == SelectSeq(descriptions,
                                  LAMBDA d : d.lineNumber = fix.lineNumber)
            IN  IF Len(lineIssues) > 0 THEN
                    IF lineIssues[1].type = "missing-close" THEN
                        [line |-> IF ~EndsWith(Trim(originalLine), <<";">>)
                                  THEN originalLine \o <<")">>
                                  ELSE ReplaceFirst(originalLine, <<";">>, <<")", ";">>),
                         counted |-> 1, how |-> "fallback-missing"]
                    ELSE IF lineIssues[1].type = "extra-close" THEN
                        [line |-> RemoveLastClose(originalLine),
                         counted |-> 1, how |-> "fallback-extra"]
                    ELSE [line |-> originalLine, counted |-> 0, how |-> "not-found"]
                ELSE [line |-> originalLine, counted |-> 0, how |-> "not-found"]
    ELSE [line |-> <<>>, counted |-> 0, how |-> "invalid-line"]

RECURSIVE ApplyFixes(_, _, _, _, _, _)
\* fixesJson.forEach, from fix number k
ApplyFixes(lines, fixes, k, fixCount, log, descriptions) ==
    IF k > Len(fixes) THEN
        [fixed |-> Join(lines, "\n"), fixCount |-> fixCount, log |-> log]
    ELSE LET r == ApplyOneFix(lines, fixes[k], descriptions) IN
         ApplyFixes(IF r.how = "invalid-line" THEN lines
                    ELSE [lines EXCEPT ![fixes[k].lineNumber] = r.line],
                    fixes, k + 1, fixCount + r.counted,
                    Append(log, r.how), descriptions)

\* getSmartFixFromAI with an outer catch that returns the script as it was
getSmartFixFromAIQuiet(script, iss, response) ==
    IF Len(iss) = 0 THEN [fixed |-> script, fixCount |-> 0, log |-> <<>>]
    ELSE IF response.status # "ok" THEN
        [fixed |-> script, fixCount |-> 0, log |-> <<"error">>]
    ELSE LET x == ExtractFixes(response) IN
         IF ~x.parsed THEN
             [fixed |-> script, fixCount |-> 0, log |-> <<"unparsed">>]
         ELSE IF Len(x.fixes) = 0 THEN
             [fixed |-> script, fixCount |-> 0, log |-> <<"no-fixes">>]
         ELSE ApplyFixes(Split(script, "\n"), x.fixes, 1, 0, <<>>,
                         IssueDescriptions(script, iss))

\* getSmartFixFromAI(script, issues) for the reply the oracle gives
getSmartFixFromAI(script, iss, response) ==
    IF Len(iss) = 0 THEN [fixed |-> script, fixCount |-> 0, log |-> <<>>]
    ELSE IF response.status # "ok" THEN
        \* axios.post rejects, or response.data.choices[0] is missing:
        \* the outer catch
        [fixed |-> fixUnbalanced(script).fixed,
         fixCount |-> fixUnbalanced(script).fixCount, log |-> <<"error">>]
    ELSE LET x == ExtractFixes(response) IN
         IF ~x.parsed THEN
             [fixed |-> script, fixCount |-> 0, log |-> <<"unparsed">>]
         ELSE IF Len(x.fixes) = 0 THEN
             [fixed |-> script, fixCount |-> 0, log |-> <<"no-fixes">>]
         ELSE ApplyFixes(Split(script, "\n"), x.fixes, 1, 0, <<>>,
                         IssueDescriptions(script, iss))

---------------------------------------------------------------------------
(* extractAndFixScripts *)

ScriptOpen == <<"<", "s", "c", "r", "i", "p", "t">>

ScriptClose == <<"<", "/", "s", "c", "r", "i", "p", "t", ">">>

\* one match of /<script[^>]*>([\s\S]*?)<\/script>/gi at or after from
\* (the documents of the model are lower-case, so "i" changes nothing)
ScriptMatchFrom(doc, from) ==
    LET starts == {i \in from..Len(doc) :
                      /\ OccursAt(doc, ScriptOpen, i)
                      /\ IndexOfFrom(doc, <<">">>, i + Len(ScriptOpen)) # -1
                      /\ IndexOfFrom(doc, ScriptClose,
                             IndexOfFrom(doc, <<">">>, i + Len(ScriptOpen)) + 1) # -1}
    IN  IF starts = {} THEN [found |-> FALSE]
        ELSE LET i == CHOOSE a \in starts : \A b \in starts : a <= b
                 gt == IndexOfFrom(doc, <<">">>, i + Len(ScriptOpen))
                 close == IndexOfFrom(doc, ScriptClose, gt + 1)
             IN  [found |-> TRUE,
                  fullMatch |-> Slice(doc, i, close + Len(ScriptClose)),
                  scriptContent |-> Slice(doc, gt + 1, close),
                  index |-> i,
                  lastIndex |-> close + Len(ScriptClose)]

RECURSIVE ScriptMatches(_, _)
\* the while loop over scriptRegex.exec(html)
ScriptMatches(doc, from) ==
    LET m == ScriptMatchFrom(doc, from)
    IN  IF ~m.found THEN <<>>
        ELSE <<[fullMatch |-> m.fullMatch, scriptContent |-> m.scriptContent,
                index |-> m.index]>> \o ScriptMatches(doc, m.lastIndex)

---------------------------------------------------------------------------
(* Inputs of the delimiter patcher *)

ScenarioA ==
    <<"c", "r", "e", "a", "t", "e", "F", "i", "s", "h", "(", "p", ".", "r",
      "a", "n", "d", "o", "m", "(", "3", ")", ";">>

ParenTokens == {<<"(">>, <<")">>, <<"x">>, <<";">>} \cup ShaderMarkers

ParenInputs == TextsOver(ParenTokens, MaxTokens) \cup {ScenarioA}

NoResult == [fixed |-> <<>>, fixCount |-> -1]

NoBlock ==
    [scriptContent |-> <<>>, issues |-> <<>>, asked |-> FALSE,
     response |-> [status |-> "none"], ai |-> NoResult, basic |-> NoResult]

NoFile == <<>>

\* processHtmlFile not called.  initial, counts and oracleFixes are not
\* locals of the function: they record the bytes the file held at the call,
\* the fixCount of each pass that returned, and the oracle passes that fixed.
NoProc ==
    [running |-> FALSE, outcome |-> "none", filePath |-> NoFile,
     initial |-> <<>>, original |-> <<>>, currentHtml |-> <<>>,
     totalFixes |-> 0, counts |-> <<>>, oracleFixes |-> 0]

FileIdle ==
    /\ env = [file |-> NoFile, locked |-> {}]
    /\ disk = <<>>
    /\ proc = NoProc
    /\ writeLog = <<>>
    /\ exitCode = -1

ScriptsIdle ==
    /\ html = <<>>
    /\ matches = <<>>
    /\ cursor = 0
    /\ result = <<>>
    /\ totalFixes = 0
    /\ oracleCalls = 0
    /\ block = NoBlock

NoReply == [status |-> "none"]

ParenIdle ==
    /\ source = <<>>
    /\ issues = <<>>
    /\ patched = NoResult
    /\ reply = NoReply

InitParen ==
    /\ pc = "start"
    /\ source \in ParenInputs
    /\ issues = <<>>
    /\ patched = NoResult
    /\ reply = NoReply
    /\ ScriptsIdle
    /\ FileIdle

Detect ==
    /\ pc = "start"
    /\ issues' = detectUnbalancedParentheses(source)
    /\ pc' = "detected"
    /\ UNCHANGED <<fileVars, source, patched, reply, scriptVars>>

FixUnbalanced ==
    /\ pc = "detected"
    /\ patched' = fixUnbalanced(source)
    /\ pc' = "fixed"
    /\ UNCHANGED <<fileVars, source, issues, reply, scriptVars>>

NextParen == Detect \/ FixUnbalanced

SpecParen == InitParen /\ [][NextParen]_vars

---------------------------------------------------------------------------
(* extractAndFixScripts as a process: one step per awaited loop iteration *)

ScriptContents == {
    <<"f", "(", "x">>,
    <<"x", ")">>,
    <<"f", "(", ")">>,
    <<"u", "n", "i", "f", "o", "r", "m", " ", "f", "(">>}

ScriptTagOpen == <<"<", "s", "c", "r", "i", "p", "t", ">">>

ScriptBlocks == {ScriptTagOpen \o c \o ScriptClose : c \in ScriptContents}

ScriptDocs == TextsOver(ScriptBlocks, MaxBlocks)

SuggestedFixes == {
    [lineNumber |-> 1, original |-> <<"f", "(", "x">>, fixed |-> <<"f", "(", "x", ")">>],
    [lineNumber |-> 1, original |-> <<"(", "x", "f">>, fixed |-> <<"f", "(", "x", ")">>],
    [lineNumber |-> 1, original |-> <<"z", "z">>, fixed |-> <<"q">>],
    [lineNumber |-> 2, original |-> <<"z", "z">>, fixed |-> <<"q">>]}

FixLists == UNION {[1..k -> SuggestedFixes] : k \in 0..MaxFixes}

\* what the suggestion oracle can answer: the request fails, the reply has
\* no choices[0].message, or the reply text is prose, a JSON object or a
\* JSON array of fixes, inside a ``` fence or not
Responses ==
    {[status |-> st, fenced |-> FALSE, body |-> "prose", fixes |-> <<>>] :
        st \in {"error", "malformed"}}
    \cup {[status |-> "ok", fenced |-> f, body |-> b, fixes |-> <<>>] :
        f \in BOOLEAN, b \in {"prose", "object"}}
    \cup {[status |-> "ok", fenced |-> f, body |-> "array", fixes |-> fx] :
        f \in BOOLEAN, fx \in FixLists}

InitScripts ==
    /\ pc = "scripts"
    /\ html \in ScriptDocs
    /\ matches = <<>>
    /\ cursor = 0
    /\ result = <<>>
    /\ totalFixes = 0
    /\ oracleCalls = 0
    /\ block = NoBlock
    /\ ParenIdle
    /\ FileIdle

\* lines 370-383
CollectScripts ==
    /\ pc = "scripts"
    /\ matches' = ScriptMatches(html, 0)
    /\ result' = html
    /\ totalFixes' = 0
    /\ cursor' = 1
    /\ pc' = "scripts-loop"
    /\ UNCHANGED <<fileVars, html, oracleCalls, block, parenVars>>

\* lines 386-392 and 412: an iteration that finds no Issue
ProcessCleanScript ==
    /\ pc = "scripts-loop"
    /\ cursor <= Len(matches)
    /\ LET scriptContent == matches[cursor].scriptContent
           found == detectUnbalancedParentheses(scriptContent)
       IN  /\ Len(found) = 0
           /\ block' = [scriptContent |-> scriptContent, issues |-> found,
                        asked |-> FALSE, response |-> [status |-> "none"],
                        ai |-> NoResult, basic |-> NoResult]
    /\ cursor' = cursor + 1
    /\ UNCHANGED <<fileVars, pc, html, matches, result, totalFixes, oracleCalls, parenVars>>

\* lines 398-411 without the else branch: no deterministic fallback
ApplyScriptFixNoFallback(res, total, match, ai) ==
    IF ai.fixCount > 0 THEN
        [result |-> ReplaceFirst(res, match.fullMatch,
                        ReplaceFirst(match.fullMatch, match.scriptContent, ai.fixed)),
         totalFixes |-> total + ai.fixCount,
         basic |-> NoResult]
    ELSE [result |-> res, totalFixes |-> total, basic |-> NoResult]

\* lines 398-411: what the iteration does with the oracle path's result
ApplyScriptFix(res, total, match, ai) ==
    IF ai.fixCount > 0 THEN
        [result |-> ReplaceFirst(res, match.fullMatch,
                        ReplaceFirst(match.fullMatch, match.scriptContent, ai.fixed)),
         totalFixes |-> total + ai.fixCount,
         basic |-> NoResult]
    ELSE LET basicFix == fixUnbalanced(match.scriptContent) IN
         IF basicFix.fixCount > 0 THEN
             [result |-> ReplaceFirst(res, match.fullMatch,
                             ReplaceFirst(match.fullMatch, match.scriptContent,
                                          basicFix.fixed)),
              totalFixes |-> total + basicFix.fixCount,
              basic |-> basicFix]
         ELSE [result |-> res, totalFixes |-> total, basic |-> basicFix]

\* lines 386-412: an iteration that finds Issues and asks the oracle
ProcessBrokenScript ==
    /\ pc = "scripts-loop"
    /\ cursor <= Len(matches)
    /\ LET match == matches[cursor]
           found == detectUnbalancedParentheses(match.scriptContent)
       IN  /\ Len(found) > 0
           /\ \E response \in Responses :
                LET ai == getSmartFixFromAI(match.scriptContent, found, response)
                    done == ApplyScriptFix(result, totalFixes, match, ai)
                IN  /\ result' = done.result
                    /\ totalFixes' = done.totalFixes
                    /\ block' = [scriptContent |-> match.scriptContent,
                                 issues |-> found, asked |-> TRUE,
                                 response |-> response, ai |-> ai,
                                 basic |-> done.basic]
    /\ oracleCalls' = oracleCalls + 1
    /\ cursor' = cursor + 1
    /\ UNCHANGED <<fileVars, pc, html, matches, parenVars>>

\* line 415
ReturnScripts ==
    /\ pc = "scripts-loop"
    /\ cursor > Len(matches)
    /\ pc' = "scripts-done"
    /\ UNCHANGED <<fileVars, scriptVars, parenVars>>

NextScripts ==
    CollectScripts \/ ProcessCleanScript \/ ProcessBrokenScript \/ ReturnScripts

SpecScripts == InitScripts /\ [][NextScripts]_vars

---------------------------------------------------------------------------
(* Properties of the delimiter patcher *)

Opens(s) == CountChar(s, "(")

Closes(s) == CountChar(s, ")")

\* the six markers as the documentation of the shader exemption lists them
MentionsShader(s) ==
    \/ Includes(s, <<"S", "h", "a", "d", "e", "r", "M", "a", "t", "e", "r", "i", "a", "l">>)
    \/ Includes(s, <<"v", "e", "r", "t", "e", "x", "S", "h", "a", "d", "e", "r">>)
    \/ Includes(s, <<"f", "r", "a", "g", "m", "e", "n", "t", "S", "h", "a", "d", "e", "r">>)
    \/ Includes(s, <<"g", "l", "_", "F", "r", "a", "g", "C", "o", "l", "o", "r">>)
    \/ Includes(s, <<"u", "n", "i", "f", "o", "r", "m", " ">>)
    \/ Includes(s, <<"v", "a", "r", "y", "i", "n", "g", " ">>)

\* C4: for script content without shader markers that has N more "(" than
\* ")", fixUnbalanced returns text with exactly N more ")" than the input,
\* the same number of "(", and as many "(" as ")".
C4_DelimiterBalance ==
    (pc = "fixed" /\ ~MentionsShader(source) /\ Opens(source) >= Closes(source))
        => /\ Closes(patched.fixed) = Closes(source) + (Opens(source) - Closes(source))
           /\ Opens(patched.fixed) = Opens(source)
           /\ Opens(patched.fixed) = Closes(patched.fixed)

ScenarioAExpected ==
    <<"c", "r", "e", "a", "t", "e", "F", "i", "s", "h", "(", "p", ".", "r",
      "a", "n", "d", "o", "m", "(", "3", ")", ")", ";">>

\* C5: fixUnbalanced turns createFish(p.random(3); into
\* createFish(p.random(3)); with fix count 1.
C5_ScenarioA ==
    (pc = "fixed" /\ source = ScenarioA)
        => patched = [fixed |-> ScenarioAExpected, fixCount |-> 1]

\* the ")" at index i closes nothing: no stretch of text ending just before
\* it holds more "(" than ")"
UnmatchedClose(s, i) ==
    /\ s[i + 1] = ")"
    /\ \A j \in 0..(i - 1) : Opens(Slice(s, j, i)) <= Closes(Slice(s, j, i))

\* the "(" at index j is never closed: no stretch of text starting just
\* after it holds more ")" than "("
UnmatchedOpen(s, j) ==
    /\ s[j + 1] = "("
    /\ \A k \in (j + 1)..(Len(s) - 1) :
           Closes(Slice(s, j + 1, k + 1)) <= Opens(Slice(s, j + 1, k + 1))

ProperlyMatched(s) ==
    /\ Opens(s) = Closes(s)
    /\ \A k \in 0..Len(s) : Closes(Slice(s, 0, k)) <= Opens(Slice(s, 0, k))

IssuesOfType(iss, type) == {k \in 1..Len(iss) : iss[k].type = type}

\* C17: for text without shader markers the detector reports an extra-close
\* Issue at i exactly when the ")" at i meets an empty stack and a
\* missing-close Issue at j exactly when the "(" at j is never popped, each
\* once; missing-close minus extra-close Issues is "(" minus ")", and there
\* is no Issue iff the parentheses are properly matched.
C17_DetectorIssues ==
    (pc \in {"detected", "fixed"} /\ ~MentionsShader(source))
        => LET extra == IssuesOfType(issues, "extra-close")
               missing == IssuesOfType(issues, "missing-close")
           IN  /\ extra \cup missing = 1..Len(issues)
               /\ {issues[k].index : k \in extra} =
                      {i \in 0..(Len(source) - 1) : UnmatchedClose(source, i)}
               /\ {issues[k].index : k \in missing} =
                      {j \in 0..(Len(source) - 1) : UnmatchedOpen(source, j)}
               /\ \A k, l \in 1..Len(issues) :
                      issues[k].index = issues[l].index => k = l
               /\ Cardinality(missing) - Cardinality(extra) =
                      Opens(source) - Closes(source)
               /\ (issues = <<>>) <=> ProperlyMatched(source)

C17_Witness ==
    /\ pc = "detected"
    /\ ~MentionsShader(source)
    /\ Opens(source) = 2
    /\ \E k \in 1..Len(issues) : issues[k].type = "extra-close"
    /\ \E k \in 1..Len(issues) : issues[k].type = "missing-close"

---------------------------------------------------------------------------
(* Properties of extractAndFixScripts *)

\* an iteration of the loop over the script matches is taken in this step
LoopStep == pc = "scripts-loop" /\ cursor <= Len(matches) /\ cursor' = cursor + 1

\* C6: a script that contains a shader marker yields no Issues whatever its
\* parenthesis balance, and the iteration over it neither asks the oracle nor
\* changes the document or the fix count.
C6_ShaderExemption ==
    [][(LoopStep /\ MentionsShader(matches[cursor].scriptContent))
          => /\ block'.issues = <<>>
             /\ ~block'.asked
             /\ oracleCalls' = oracleCalls
             /\ result' = result
             /\ totalFixes' = totalFixes]_vars

C6_Witness ==
    /\ pc = "scripts-loop"
    /\ cursor > 1
    /\ MentionsShader(block.scriptContent)
    /\ Opens(block.scriptContent) # Closes(block.scriptContent)
    /\ result = html

\* the oracle gave nothing to apply: the request failed, or the reply was
\* prose, not an array, or an empty array
NoUsablePatch(response) ==
    \/ response.status \in {"error", "malformed"}
    \/ response.body \in {"prose", "object"}
    \/ response.fixes = <<>>

\* the working copy with the content of the current match replaced, at the
\* match's own position, by the deterministic patch
DeterministicallyPatched ==
    LET match == matches[cursor]
        at == match.index + (Len(result) - Len(html))
        contentAt == at + IndexOf(match.fullMatch, <<">">>) + 1
    IN  Slice(result, 0, contentAt)
            \o fixUnbalanced(match.scriptContent).fixed
            \o SliceFrom(result, contentAt + Len(match.scriptContent))

\* C10: when the script has Issues and the oracle yields no usable patch,
\* the iteration applies the deterministic patch exactly once and adds the
\* number of detected Issues, which is not 0, to the total.
C10_FallbackCount ==
    [][(LoopStep /\ block'.asked /\ NoUsablePatch(block'.response))
          => /\ Len(block'.issues) > 0
             /\ totalFixes' = totalFixes + Len(block'.issues)
             /\ result' = DeterministicallyPatched]_vars

C10_Witness ==
    /\ block.asked
    /\ block.response.status = "ok"
    /\ block.response.body = "prose"
    /\ cursor > 2
    /\ totalFixes >= 2
    /\ result # html

\* the request failed or the reply has no choices[0].message
RequestFailed(response) == response.status \in {"error", "malformed"}

\* the reply arrived but holds no array of fixes: prose, invalid or non-array
\* JSON, or an empty array
ReplyUnusable(response) ==
    /\ response.status = "ok"
    /\ (response.body \in {"prose", "object"} \/ response.fixes = <<>>)

\* C16 (as the code has it): when the reply holds no usable array of fixes
\* getSmartFixFromAI returns the script unchanged with fixCount 0; when the
\* request itself fails or the reply is malformed it returns the
\* deterministic patch of the script with one fix per detected Issue, and
\* its caller does not run the deterministic patch again.
C16_OracleFailure ==
    block.asked
        => /\ ReplyUnusable(block.response)
                => /\ block.ai.fixed = block.scriptContent
                   /\ block.ai.fixCount = 0
                   /\ block.basic.fixCount = Len(block.issues)
           /\ RequestFailed(block.response)
                => /\ block.ai.fixed = fixUnbalanced(block.scriptContent).fixed
                   /\ block.ai.fixed # block.scriptContent
                   /\ block.ai.fixCount = Len(block.issues)
                   /\ block.ai.fixCount > 0
                   /\ block.basic = NoResult

C16_Witness ==
    /\ block.asked
    /\ block.response.status = "error"
    /\ block.ai.fixCount = 1
    /\ block.ai.fixed # block.scriptContent
    /\ block.basic = NoResult
    /\ pc = "scripts-done"

\* C16: when the oracle call fails in any way (request throws, response
\* malformed, JSON empty or invalid) getSmartFixFromAI returns the script
\* unchanged with fixCount 0.
C16_ZeroOnAnyFailure ==
    (block.asked /\ (RequestFailed(block.response) \/ ReplyUnusable(block.response)))
        => /\ block.ai.fixed = block.scriptContent
           /\ block.ai.fixCount = 0

---------------------------------------------------------------------------
(* getSmartFixFromAI on lines around the fuzzy-match threshold *)

RECURSIVE Rep(_, _)
\* the character c repeated n times
Rep(c, n) == IF n <= 0 THEN <<>> ELSE <<c>> \o Rep(c, n - 1)

LineLengths == {10, 20, 100}

\* numbers of matching characters around 0.7 * len
Around(len) ==
    {m \in ((7 * len) \div 10 - MaxSpread)..((7 * len) \div 10 + MaxSpread) :
        m >= 2 /\ m < len}

\* a one-line script with a missing ")" and a suggested fix whose original
\* is not in the line and shares m of len characters with it:
\*   "swap": original as long as the line, its tail replaced by other text
\*   "short": original shorter than the line, every character of it in the line
PatchCase(kind, len, m) ==
    IF kind = "swap" THEN
        [script |-> <<"(">> \o Rep("a", m - 1) \o Rep("b", len - m),
         fix |-> [lineNumber |-> 1,
                  original |-> <<"(">> \o Rep("a", m - 1) \o Rep("z", len - m),
                  fixed |-> <<"o", "k">>]]
    ELSE
        [script |-> <<"(">> \o Rep("a", len - 1),
         fix |-> [lineNumber |-> 1,
                  original |-> Rep("a", m - 1) \o <<"(">>,
                  fixed |-> <<"o", "k">>]]

PatchCases ==
    UNION {{PatchCase(kind, len, m) : kind \in {"swap", "short"}, m \in Around(len)} :
              len \in LineLengths}

InitPatch ==
    /\ pc = "patch"
    /\ \E c \in PatchCases, f \in BOOLEAN :
          /\ source = c.script
          /\ reply = [status |-> "ok", fenced |-> f, body |-> "array",
                      fixes |-> <<c.fix>>]
    /\ issues = <<>>
    /\ patched = NoResult
    /\ ScriptsIdle
    /\ FileIdle

\* lines 127-335 for the reply at hand
AskOracle ==
    /\ pc = "patch"
    /\ issues' = detectUnbalancedParentheses(source)
    /\ patched' = getSmartFixFromAI(source, detectUnbalancedParentheses(source), reply)
    /\ pc' = "patched"
    /\ UNCHANGED <<fileVars, source, reply, scriptVars>>

NextPatch == AskOracle

SpecPatch == InitPatch /\ [][NextPatch]_vars

\* C7: when original is not a substring of the target line, the fuzzy path
\* overwrites the line with fixed if and only if the similarity is strictly
\* greater than 0.7 (not at 70/100, but at 71/100).
C7_FuzzyThreshold ==
    (pc = "patched" /\ ~Includes(source, reply.fixes[1].original))
        => LET sim == calculateStringSimilarity(source, reply.fixes[1].original)
               fuzzy == patched.log = <<"fuzzy">>
           IN  /\ fuzzy <=> (10 * sim.num > 7 * sim.den)
               /\ (100 * sim.num >= 71 * sim.den) => fuzzy
               /\ (100 * sim.num = 70 * sim.den) => ~fuzzy
               /\ fuzzy => patched.fixed = reply.fixes[1].fixed
               /\ ~fuzzy => patched.fixed # reply.fixes[1].fixed

C7_Witness ==
    /\ pc = "patched"
    /\ ~Includes(source, reply.fixes[1].original)
    /\ Len(source) = 100
    /\ calculateStringSimilarity(source, reply.fixes[1].original) =
           [num |-> 70, den |-> 100]
    /\ patched.log = <<"fallback-missing">>
    /\ patched.fixed = source \o <<")">>

\* the character positions of the shorter of two strings whose character
\* occurs somewhere in the longer one
FoundInLonger(str1, str2) ==
    LET shorter == IF Len(str1) <= Len(str2) THEN str1 ELSE str2
        longer == IF Len(str1) <= Len(str2) THEN str2 ELSE str1
    IN  Cardinality({i \in 1..Len(shorter) :
                        \E k \in 1..Len(longer) : longer[k] = shorter[i]})

\* C20 (as the code has it): the similarity is the number of character
\* positions of the shorter string whose character occurs in the longer one,
\* divided by the length of the LONGER string; a shorter string all of whose
\* characters occur in the longer one scores its length over the longer
\* length, which is below 1 when the lengths differ.
C20_LongerFraction ==
    (pc = "patched")
        => LET str1 == source
               str2 == reply.fixes[1].original
               sim == calculateStringSimilarity(str1, str2)
           IN  /\ sim.num * Max(Len(str1), Len(str2)) = FoundInLonger(str1, str2) * sim.den
               /\ (FoundInLonger(str1, str2) = Min(Len(str1), Len(str2)))
                     => sim.num * Max(Len(str1), Len(str2)) = Min(Len(str1), Len(str2)) * sim.den

C20_Witness ==
    /\ pc = "patched"
    /\ Len(reply.fixes[1].original) < Len(source)
    /\ FoundInLonger(source, reply.fixes[1].original) = Len(reply.fixes[1].original)
    /\ calculateStringSimilarity(source, reply.fixes[1].original) = [num |-> 7, den |-> 10]
    /\ patched.log = <<"fallback-missing">>

\* C20: the similarity is the number of character positions of the shorter
\* string whose character occurs in the longer one, divided by the length of
\* the shorter string; it is 1 when every character of the shorter occurs in
\* the longer.
C20_ShorterFraction ==
    (pc = "patched")
        => LET str1 == source
               str2 == reply.fixes[1].original
               shorter == IF Len(str1) <= Len(str2) THEN str1 ELSE str2
               longer == IF Len(str1) <= Len(str2) THEN str2 ELSE str1
               found == Cardinality({i \in 1..Len(shorter) :
                                        \E k \in 1..Len(longer) : longer[k] = shorter[i]})
               sim == calculateStringSimilarity(str1, str2)
           IN  /\ sim.num * Len(shorter) = found * sim.den
               /\ (found = Len(shorter)) => sim.num = sim.den

---------------------------------------------------------------------------
(* getSmartFixFromAI on scripts of two lines and replies of several fixes *)

\* two-line scripts: an Issue on the first line only, on both lines (an
\* extra ")" and a missing one before ";"), on the second line only
ApplyScripts == {
    <<"f", "(", "x", "\n", "g", "(", "y", ")">>,
    <<"y", ")", "\n", "f", "(", "x", ";">>,
    <<"o", "k", "\n", "f", "(", "x">>}

\* expected originals: a text of some lines, a reordering of it, other text
ApplyOriginals == {<<"f", "(", "x">>, <<"x", "(", "f">>, <<"z", "z">>}

ApplyFixSet ==
    {[lineNumber |-> n, original |-> o, fixed |-> <<"f", "(", "x", ")">>] :
        n \in {0, 1, 2, 3}, o \in ApplyOriginals}

ApplyFixLists == UNION {[1..k -> ApplyFixSet] : k \in 1..MaxPatches}

InitApply ==
    /\ pc = "patch"
    /\ source \in ApplyScripts
    /\ \E fx \in ApplyFixLists, f \in BOOLEAN :
          reply = [status |-> "ok", fenced |-> f, body |-> "array", fixes |-> fx]
    /\ issues = <<>>
    /\ patched = NoResult
    /\ ScriptsIdle
    /\ FileIdle

SpecApply == InitApply /\ [][NextPatch]_vars

\* the lines and the fix count once the first k fixes of the reply are applied
AfterFixes(k) ==
    LET r == ApplyFixes(Split(source, "\n"), SubSeq(reply.fixes, 1, k), 1, 0,
                        <<>>, IssueDescriptions(source, issues))
    IN  [lines |-> Split(r.fixed, "\n"), fixCount |-> r.fixCount]

\* the types of the Issues detected on line n (1-based) of the script
IssueTypesOnLine(n) ==
    {issues[k].type : k \in {m \in 1..Len(issues) :
        CountChar(Slice(source, 0, issues[m].index), "\n") + 1 = n}}

\* C19: each suggested patch is applied by strict precedence: replacement of
\* the first occurrence of original when it occurs in the target line;
\* otherwise overwrite of the whole line when the similarity exceeds 0.7;
\* otherwise the heuristic for the Issue type, and only if an Issue was
\* detected on that line.  A patch counts at most once, changes no other
\* line, and changes nothing when its lineNumber is outside 1..#lines.
C19_PatchPrecedence ==
    (pc = "patched")
        => /\ \A k \in 1..Len(reply.fixes) :
                LET before == AfterFixes(k - 1).lines
                    after == AfterFixes(k).lines
                    counted == AfterFixes(k).fixCount - AfterFixes(k - 1).fixCount
                    fix == reply.fixes[k]
                    n == fix.lineNumber
                IN  /\ counted \in {0, 1}
                    /\ Len(after) = Len(before)
                    /\ \A m \in 1..Len(before) : m # n => after[m] = before[m]
                    /\ n \notin 1..Len(before) => (after = before /\ counted = 0)
                    /\ n \in 1..Len(before) =>
                          LET line == before[n]
                              sim == calculateStringSimilarity(line, fix.original)
                          IN  IF \E at \in 0..Len(line) : OccursAt(line, fix.original, at)
                              THEN /\ after[n] = ReplaceFirst(line, fix.original, fix.fixed)
                                   /\ counted = 1
                              ELSE IF 10 * sim.num > 7 * sim.den
                              THEN after[n] = fix.fixed /\ counted = 1
                              ELSE IF IssueTypesOnLine(n) # {}
                              THEN /\ counted = 1
                                   /\ Opens(after[n]) = Opens(line)
                                   /\ Closes(after[n]) \in
                                         {Closes(line) + 1, Max(Closes(line) - 1, 0)}
                              ELSE after[n] = line /\ counted = 0
           /\ patched.fixCount = AfterFixes(Len(reply.fixes)).fixCount
           /\ patched.fixed = Join(AfterFixes(Len(reply.fixes)).lines, "\n")

\* a reply of two patches: the first found verbatim in a line that is also
\* similar to it, the second out of range
C19_Witness ==
    /\ pc = "patched"
    /\ Len(reply.fixes) = 2
    /\ patched.log = <<"exact", "invalid-line">>
    /\ patched.fixCount = 1
    /\ patched.fixed = <<"y", ")", "\n", "f", "(", "x", ")", ";">>

---------------------------------------------------------------------------
(* fixUndefinedVariables: applying the oracle's fixes to one script *)

\* the declaration put at the top when a fix's original is not in the script
AutoDeclaration(varName) ==
    <<"l", "e", "t", " ">> \o varName \o
        <<" ", "=", " ", "{", " ", "u", "n", "i", "f", "o", "r", "m", "s",
          ":", " ", "{", " ", "v", "a", "l", "u", "e", ":", " ", "{", " ",
          "x", ":", " ", "0", ",", " ", "y", ":", " ", "0", " ", "}", " ",
          "}", " ", "}", ";", " ", "/", "/", " ", "A", "u", "t", "o", "-",
          "d", "e", "c", "l", "a", "r", "e", "d", " ", "a", "t", " ", "t",
          "o", "p", " ", "l", "e", "v", "e", "l", " ", "t", "o", " ", "f",
          "i", "x", " ", "u", "n", "d", "e", "f", "i", "n", "e", "d", " ",
          "e", "r", "r", "o", "r">>

\* the body of fixResult.fixes.forEach for one fix; a missing lineNumber is
\* 0 and a missing original is the empty text, both falsy
ApplyVariableFix(st, fix, varName) ==
    IF fix.lineNumber > 0 /\ fix.lineNumber <= Len(st.scriptLines) THEN
        [st EXCEPT !.scriptLines[fix.lineNumber] = fix.replacement,
                   !.changedLines = @ + 1, !.totalFixCount = @ + 1]
    ELSE IF fix.original # <<>> THEN
        IF Includes(st.fixedScript, fix.original) THEN
            [st EXCEPT !.fixedScript = ReplaceFirst(@, fix.original, fix.replacement),
                       !.changedLines = @ + 1, !.totalFixCount = @ + 1]
        ELSE
            [st EXCEPT !.scriptLines = <<AutoDeclaration(varName)>> \o @,
                       !.changedLines = @ + 1, !.totalFixCount = @ + 1]
    ELSE st

RECURSIVE ApplyVariableFixesFrom(_, _, _, _)
\* fixResult.fixes.forEach, from fix number k
ApplyVariableFixesFrom(st, fixes, k, varName) ==
    IF k > Len(fixes) THEN st
    ELSE ApplyVariableFixesFrom(ApplyVariableFix(st, fixes[k], varName),
                                fixes, k + 1, varName)

\* the branch of fixUndefinedVariables for oracle-generated fixes: the fixed
\* script and the fixes counted for it
ApplyVariableFixes(scriptContent, fixes, varName) ==
    LET st == ApplyVariableFixesFrom(
                  [scriptLines |-> Split(scriptContent, "\n"),
                   fixedScript |-> scriptContent,
                   changedLines |-> 0, totalFixCount |-> 0],
                  fixes, 1, varName)
    IN  [fixed |-> IF st.changedLines > 0 /\ Len(fixes) > 0
                   THEN Join(st.scriptLines, "\n") ELSE st.fixedScript,
         fixCount |-> st.totalFixCount]

VariableName == <<"v">>

VariableScripts == {
    <<"a", "=", "v", ";", "\n", "b", "=", "1", ";">>,
    <<"v", "(", ")", ";">>}

VariableOriginals == {<<>>, <<"a", "=", "v", ";">>, <<"z", "z">>}

VariableFixSet ==
    {[lineNumber |-> n, original |-> o,
      replacement |-> <<"l", "e", "t", " ", "v", ";">>] :
        n \in {0, 1, 2, 3}, o \in VariableOriginals}

VariableFixLists == UNION {[1..k -> VariableFixSet] : k \in 1..MaxPatches}

InitVariable ==
    /\ pc = "variable"
    /\ source \in VariableScripts
    /\ \E fx \in VariableFixLists :
          reply = [status |-> "ok", success |-> TRUE, automaticFix |-> FALSE,
                   fixes |-> fx]
    /\ issues = <<>>
    /\ patched = NoResult
    /\ ScriptsIdle
    /\ FileIdle

\* lines 1449-1490 for the fixes the oracle gave
ApplyVariableSuggestions ==
    /\ pc = "variable"
    /\ patched' = ApplyVariableFixes(source, reply.fixes, VariableName)
    /\ pc' = "variable-fixed"
    /\ UNCHANGED <<fileVars, source, issues, reply, scriptVars>>

NextVariable == ApplyVariableSuggestions

SpecVariable == InitVariable /\ [][NextVariable]_vars

\* the script as it would be returned, and the count, once the first k
\* fixes of the reply are applied
AfterVariableFixes(k) == ApplyVariableFixes(source, SubSeq(reply.fixes, 1, k), VariableName)

\* C18: a suggested patch changes the script only if its expected original
\* text matches the current content (the target line when it names one);
\* a patch whose original text does not match is skipped and leaves the
\* script and the fix count unchanged.
C18_PatchOnlyOnMatch ==
    (pc = "variable-fixed")
        => \A k \in 1..Len(reply.fixes) :
              LET before == AfterVariableFixes(k - 1)
                  after == AfterVariableFixes(k)
                  fix == reply.fixes[k]
                  lines == Split(before.fixed, "\n")
                  target == IF fix.lineNumber \in 1..Len(lines)
                            THEN lines[fix.lineNumber] ELSE before.fixed
                  found == fix.original # <<>> /\ Includes(target, fix.original)
              IN  ~found => after = before

---------------------------------------------------------------------------
(* Regular-expression helpers *)

Letters ==
    {"a", "b", "c", "d", "e", "f", "g", "h", "i", "j", "k", "l", "m", "n",
     "o", "p", "q", "r", "s", "t", "u", "v", "w", "x", "y", "z", "A", "B",
     "C", "D", "E", "F", "G", "H", "I", "J", "K", "L", "M", "N", "O", "P",
     "Q", "R", "S", "T", "U", "V", "W", "X", "Y", "Z"}

Digits == {"0", "1", "2", "3", "4", "5", "6", "7", "8", "9"}

\* \w
IsWord(c) == c \in Letters \cup Digits \cup {"_"}

\* the least element of a non-empty set of numbers
Least(S) == CHOOSE i \in S : \A j \in S : i <= j

\* where a greedy run of characters of the set cs, started at i, ends
RunOf(s, i, cs) == Least({j \in i..Len(s) : j = Len(s) \/ s[j + 1] \notin cs})

\* where a greedy run of characters outside the set cs, started at i, ends
RunTo(s, i, cs) == Least({j \in i..Len(s) : j = Len(s) \/ s[j + 1] \in cs})

\* \s* from i
SkipSpaces(s, i) == RunOf(s, i, {" ", "\n", "\t", "\r"})

NoMatch == [found |-> FALSE]

---------------------------------------------------------------------------
(* Malformed-markup normalizer and style-block inference: the patterns *)

EntLt == <<"&", "l", "t", ";">>

EntGt == <<"&", "g", "t", ";">>

\* /&lt;\s*(?:script)?\s*src="([^"]+)"(?:\s*&gt;)?/gi anchored at i.  The
\* documents of the model spell the literal parts in lower case, so the i
\* flag has nothing to fold.
MalformedScriptAt(s, i) ==
    IF ~OccursAt(s, EntLt, i) THEN NoMatch
    ELSE LET b == SkipSpaces(s, i + Len(EntLt))
             c == IF OccursAt(s, <<"s", "c", "r", "i", "p", "t">>, b)
                  THEN b + 6 ELSE b
             d == SkipSpaces(s, c)
             e == d + 5
             q == IndexOfFrom(s, <<"\"">>, e)
             g == SkipSpaces(s, q + 1)
         IN  IF OccursAt(s, <<"s", "r", "c", "=", "\"">>, d) /\ q > e THEN
                 [found |-> TRUE, index |-> i,
                  end |-> IF OccursAt(s, EntGt, g) THEN g + Len(EntGt) ELSE q + 1,
                  groups |-> <<Slice(s, e, q)>>]
             ELSE NoMatch

\* /&lt;\s*&gt;\s*([^<]+)(?:<\/title>)?/gi anchored at i
MalformedTitleAt(s, i) ==
    IF ~OccursAt(s, EntLt, i) THEN NoMatch
    ELSE LET b == SkipSpaces(s, i + Len(EntLt))
             c == b + Len(EntGt)
             d == SkipSpaces(s, c)
             e == RunTo(s, d, {"<"})
             \* [^<]+ needs a character: \s* gives its last one back
             from == IF e > d THEN d ELSE d - 1
         IN  IF OccursAt(s, EntGt, b) /\ (e > d \/ d > c) THEN
                 [found |-> TRUE, index |-> i,
                  end |-> IF OccursAt(s, <<"<", "/", "t", "i", "t", "l", "e", ">">>, e)
                          THEN e + 8 ELSE e,
                  groups |-> <<Slice(s, from, e)>>]
             ELSE NoMatch

\* /&lt;([a-zA-Z]+)([^&]*)&gt;/g anchored at i
EntityTagAt(s, i) ==
    IF ~OccursAt(s, EntLt, i) THEN NoMatch
    ELSE LET a == i + Len(EntLt)
             b == RunOf(s, a, Letters)
             c == RunTo(s, b, {"&"})
         IN  IF b > a /\ OccursAt(s, EntGt, c) THEN
                 [found |-> TRUE, index |-> i, end |-> c + Len(EntGt),
                  groups |-> <<Slice(s, a, b), Slice(s, b, c)>>]
             ELSE NoMatch

\* \s*(\s*body\s*\{[^<]+?\}.*?(?=<\w+|$)) with the s flag, from a: the tail
\* shared by the four commonPatterns, index being where the prefix began
BodyRuleAfter(s, index, a) ==
    LET b == SkipSpaces(s, a)
        c == SkipSpaces(s, b + 4)
        closers == {j \in (c + 2)..(Len(s) - 1) :
                       /\ s[j + 1] = "}"
                       /\ \A k \in (c + 1)..(j - 1) : s[k + 1] # "<"}
        q == Least(closers)
        ends == {r \in (q + 1)..Len(s) :
                    \/ r = Len(s)
                    \/ s[r + 1] = "<" /\ r + 1 < Len(s) /\ IsWord(s[r + 2])}
    IN  IF /\ OccursAt(s, <<"b", "o", "d", "y">>, b)
           /\ OccursAt(s, <<"{">>, c)
           /\ closers # {}
        THEN [found |-> TRUE, index |-> index, end |-> Least(ends),
              groups |-> <<Slice(s, b, Least(ends))>>]
        ELSE NoMatch

\* /<\/script>\s*(...)/s anchored at i
AfterScriptAt(s, i) ==
    IF OccursAt(s, ScriptClose, i)
    THEN BodyRuleAfter(s, i, i + Len(ScriptClose)) ELSE NoMatch

\* /<\/title>\s*(...)/s anchored at i
AfterTitleAt(s, i) ==
    IF OccursAt(s, <<"<", "/", "t", "i", "t", "l", "e", ">">>, i)
    THEN BodyRuleAfter(s, i, i + 8) ELSE NoMatch

\* /<meta[^>]*>\s*(...)/s anchored at i
AfterMetaAt(s, i) ==
    LET g == RunTo(s, i + 5, {">"})
    IN  IF OccursAt(s, <<"<", "m", "e", "t", "a">>, i) /\ g < Len(s)
        THEN BodyRuleAfter(s, i, g + 1) ELSE NoMatch

\* /<head>\s*(...)/s anchored at i
AfterHeadAt(s, i) ==
    IF OccursAt(s, <<"<", "h", "e", "a", "d", ">">>, i)
    THEN BodyRuleAfter(s, i, i + 6) ELSE NoMatch

\* [^{<>]*\{[^}]+\} from a: where the rule ends, -1 when it does not match
RuleBodyEnd(s, a) ==
    LET b == RunTo(s, a, {"{", "<", ">"})
        c == RunTo(s, b + 1, {"}"})
    IN  IF b < Len(s) /\ s[b + 1] = "{" /\ c > b + 1 /\ c < Len(s)
        THEN c + 1 ELSE -1

RECURSIVE MoreRules(_, _)
\* (?:\s*[\w.#*:][^{<>]*\{[^}]+\})* from e: where the last rule ends
MoreRules(s, e) ==
    LET a == SkipSpaces(s, e)
        n == IF a < Len(s) /\ (IsWord(s[a + 1]) \/ s[a + 1] \in {".", "#", "*", ":"})
             THEN RuleBodyEnd(s, a + 1) ELSE -1
    IN  IF n = -1 THEN e ELSE MoreRules(s, n)

\* standalonePattern anchored at i: ^ at 0, a line break elsewhere
StandaloneAt(s, i) ==
    LET a == IF i = 0 THEN 0 ELSE i + 1
        b == SkipSpaces(s, a)
        sel == IF OccursAt(s, <<"b", "o", "d", "y">>, b)
                  \/ OccursAt(s, <<"h", "t", "m", "l">>, b) THEN b + 4
               ELSE IF b < Len(s) /\ s[b + 1] \in {"#", "."}
                       /\ RunOf(s, b + 1, Letters \cup Digits \cup {"_", "-"}) > b + 1
                    THEN RunOf(s, b + 1, Letters \cup Digits \cup {"_", "-"})
               ELSE -1
        e == IF sel = -1 THEN -1 ELSE RuleBodyEnd(s, sel)
    IN  IF (i = 0 \/ (i < Len(s) /\ s[i + 1] \in {"\n", "\r"})) /\ e # -1
        THEN [found |-> TRUE, index |-> i, end |-> MoreRules(s, e),
              groups |-> <<Slice(s, a, MoreRules(s, e))>>]
        ELSE NoMatch

\* the first of the positions from..Len(s) that satisfy hit, -1 when none
FirstOf(s, from, hits) ==
    IF from > Len(s) \/ hits = {} THEN -1 ELSE Least(hits)

\* malformedScriptPattern.exec(s) from lastIndex from: the leftmost match at or after it
FirstMalformedScript(s, from) ==
    LET i == FirstOf(s, from, {j \in from..Len(s) : MalformedScriptAt(s, j).found})
    IN  IF i = -1 THEN NoMatch ELSE MalformedScriptAt(s, i)

\* malformedTitlePattern.exec(s) from lastIndex from: the leftmost match at or after it
FirstMalformedTitle(s, from) ==
    LET i == FirstOf(s, from, {j \in from..Len(s) : MalformedTitleAt(s, j).found})
    IN  IF i = -1 THEN NoMatch ELSE MalformedTitleAt(s, i)

\* entityTagPattern.exec(s) from lastIndex from: the leftmost match at or after it
FirstEntityTag(s, from) ==
    LET i == FirstOf(s, from, {j \in from..Len(s) : EntityTagAt(s, j).found})
    IN  IF i = -1 THEN NoMatch ELSE EntityTagAt(s, i)

\* commonPatterns[0].exec(s) from lastIndex from: the leftmost match at or after it
FirstAfterScript(s, from) ==
    LET i == FirstOf(s, from, {j \in from..Len(s) : AfterScriptAt(s, j).found})
    IN  IF i = -1 THEN NoMatch ELSE AfterScriptAt(s, i)

\* commonPatterns[1].exec(s) from lastIndex from: the leftmost match at or after it
FirstAfterTitle(s, from) ==
    LET i == FirstOf(s, from, {j \in from..Len(s) : AfterTitleAt(s, j).found})
    IN  IF i = -1 THEN NoMatch ELSE AfterTitleAt(s, i)

\* commonPatterns[2].exec(s) from lastIndex from: the leftmost match at or after it
FirstAfterMeta(s, from) ==
    LET i == FirstOf(s, from, {j \in from..Len(s) : AfterMetaAt(s, j).found})
    IN  IF i = -1 THEN NoMatch ELSE AfterMetaAt(s, i)

\* commonPatterns[3].exec(s) from lastIndex from: the leftmost match at or after it
FirstAfterHead(s, from) ==
    LET i == FirstOf(s, from, {j \in from..Len(s) : AfterHeadAt(s, j).found})
    IN  IF i = -1 THEN NoMatch ELSE AfterHeadAt(s, i)

\* standalonePattern.exec(s) from lastIndex from: the leftmost match at or after it
FirstStandalone(s, from) ==
    LET i == FirstOf(s, from, {j \in from..Len(s) : StandaloneAt(s, j).found})
    IN  IF i = -1 THEN NoMatch ELSE StandaloneAt(s, i)

RECURSIVE AllMalformedScript(_, _)
\* while ((match = malformedScriptPattern.exec(html)) !== null)
AllMalformedScript(s, from) ==
    LET m == FirstMalformedScript(s, from)
    IN  IF ~m.found THEN <<>>
        ELSE <<m>> \o AllMalformedScript(s, IF m.end = m.index THEN m.end + 1 ELSE m.end)

RECURSIVE AllMalformedTitle(_, _)
\* while ((match = malformedTitlePattern.exec(html)) !== null)
AllMalformedTitle(s, from) ==
    LET m == FirstMalformedTitle(s, from)
    IN  IF ~m.found THEN <<>>
        ELSE <<m>> \o AllMalformedTitle(s, IF m.end = m.index THEN m.end + 1 ELSE m.end)

RECURSIVE AllEntityTag(_, _)
\* while ((match = entityTagPattern.exec(html)) !== null)
AllEntityTag(s, from) ==
    LET m == FirstEntityTag(s, from)
    IN  IF ~m.found THEN <<>>
        ELSE <<m>> \o AllEntityTag(s, IF m.end = m.index THEN m.end + 1 ELSE m.end)

criticalTags == {
    <<"s", "c", "r", "i", "p", "t">>,
    <<"/", "s", "c", "r", "i", "p", "t">>,
    <<"t", "i", "t", "l", "e">>,
    <<"/", "t", "i", "t", "l", "e">>,
    <<"s", "t", "y", "l", "e">>,
    <<"/", "s", "t", "y", "l", "e">>,
    <<"l", "i", "n", "k">>,
    <<"m", "e", "t", "a">>}

\* the text of a match
FullMatch(s, m) == Slice(s, m.index, m.end)

\* `<script src="${srcUrl}"></script>`
ScriptTagFor(m) ==
    <<"<", "s", "c", "r", "i", "p", "t", " ", "s", "r", "c", "=", "\"">>
        \o m.groups[1]
        \o <<"\"", ">", "<", "/", "s", "c", "r", "i", "p", "t", ">">>

\* `<title>${titleContent}</title>`
TitleTagFor(m) ==
    <<"<", "t", "i", "t", "l", "e", ">">> \o m.groups[1]
        \o <<"<", "/", "t", "i", "t", "l", "e", ">">>

\* `<${tagName}${attributes}>`
EntityTagFor(m) == <<"<">> \o m.groups[1] \o m.groups[2] \o <<">">>

RECURSIVE RewriteScriptTags(_, _, _, _)
\* lines 1109-1121: the matches are those of the pass's input html
RewriteScriptTags(src, ms, k, st) ==
    IF k > Len(ms) THEN st
    ELSE RewriteScriptTags(src, ms, k + 1,
             [fixedHtml |-> ReplaceFirst(st.fixedHtml, FullMatch(src, ms[k]),
                                         ScriptTagFor(ms[k])),
              fixCount |-> st.fixCount + 1])

RECURSIVE RewriteTitleTags(_, _, _, _)
\* lines 1125-1137
RewriteTitleTags(src, ms, k, st) ==
    IF k > Len(ms) THEN st
    ELSE RewriteTitleTags(src, ms, k + 1,
             [fixedHtml |-> ReplaceFirst(st.fixedHtml, FullMatch(src, ms[k]),
                                         TitleTagFor(ms[k])),
              fixCount |-> st.fixCount + 1])

RECURSIVE RewriteEntityTags(_, _, _, _)
\* lines 1143-1156
RewriteEntityTags(src, ms, k, st) ==
    IF k > Len(ms) THEN st
    ELSE RewriteEntityTags(src, ms, k + 1,
             IF ms[k].groups[1] \in criticalTags THEN
                 [fixedHtml |-> ReplaceFirst(st.fixedHtml, FullMatch(src, ms[k]),
                                             EntityTagFor(ms[k])),
                  fixCount |-> st.fixCount + 1]
             ELSE st)

fixMalformedHtmlTags(doc) ==
    LET s0 == [fixedHtml |-> doc, fixCount |-> 0]
        s1 == RewriteScriptTags(doc, AllMalformedScript(doc, 0), 1, s0)
        s2 == RewriteTitleTags(doc, AllMalformedTitle(doc, 0), 1, s1)
    IN  RewriteEntityTags(doc, AllEntityTag(doc, 0), 1, s2)

---------------------------------------------------------------------------
(* fixMalformedHtmlTags on documents with entity-encoded tags *)

EncodedScriptTag ==
    <<"&", "l", "t", ";", "s", "c", "r", "i", "p", "t", " ", "s", "r", "c",
      "=", "\"", "f", "o", "o", ".", "j", "s", "\"", "&", "g", "t", ";">>

EncodedDivTag == <<"&", "l", "t", ";", "d", "i", "v", "&", "g", "t", ";">>

MarkupPieces == {
    EncodedScriptTag,
    EncodedDivTag,
    <<"&", "l", "t", ";", "/", "s", "c", "r", "i", "p", "t", "&", "g", "t", ";">>,
    <<"&", "l", "t", ";", "t", "i", "t", "l", "e", "&", "g", "t", ";">>,
    <<"&", "l", "t", ";", "&", "g", "t", ";", "T", "<", "/", "t", "i", "t", "l", "e", ">">>,
    <<"&", "l", "t", ";", "m", "e", "t", "a", " ", "c", "h", "a", "r", "s",
      "e", "t", "=", "\"", "u", "\"", "&", "g", "t", ";">>,
    <<"<", "p", ">">>}

MarkupDocs == TextsOver(MarkupPieces, MaxPieces)

InitMarkup ==
    /\ pc = "markup"
    /\ html \in MarkupDocs
    /\ matches = <<>>
    /\ cursor = 0
    /\ result = <<>>
    /\ totalFixes = 0
    /\ oracleCalls = 0
    /\ block = NoBlock
    /\ ParenIdle
    /\ FileIdle

\* lines 1100-1159
FixMalformedHtmlTags ==
    /\ pc = "markup"
    /\ result' = fixMalformedHtmlTags(html).fixedHtml
    /\ totalFixes' = fixMalformedHtmlTags(html).fixCount
    /\ pc' = "markup-done"
    /\ UNCHANGED <<fileVars, html, matches, cursor, oracleCalls, block, parenVars>>

NextMarkup == FixMalformedHtmlTags

SpecMarkup == InitMarkup /\ [][NextMarkup]_vars

DecodedScriptTag ==
    <<"<", "s", "c", "r", "i", "p", "t", " ", "s", "r", "c", "=", "\"", "f",
      "o", "o", ".", "j", "s", "\"", ">", "<", "/", "s", "c", "r", "i", "p",
      "t", ">">>

\* the document holds the encoded script tag once and no other entity
Entities(doc) == CountChar(doc, "&")

\* C8: a document whose only entity-encoded construct is one
\* &lt;script src="foo.js"&gt; comes back with that tag rewritten to
\* <script src="foo.js"></script> and a fix count of exactly 1.
C8_ScenarioB ==
    (pc = "markup-done" /\ Includes(html, EncodedScriptTag) /\ Entities(html) = 2)
        => /\ result = ReplaceFirst(html, EncodedScriptTag, DecodedScriptTag)
           /\ totalFixes = 1

---------------------------------------------------------------------------
(* Style-block inference *)

\* /[a-zA-Z-]+\s*:\s*[^;{}]+(;|\})/.test(text)
hasCssProperties(text) ==
    \E c \in 1..(Len(text) - 1) :
        /\ text[c + 1] = ":"
        /\ \E l \in 0..(c - 1) :
              /\ text[l + 1] \in Letters \cup {"-"}
              /\ \A k \in (l + 1)..(c - 1) : IsSpace(text[k + 1])
        /\ LET e == RunTo(text, c + 1, {";", "{", "}"})
           IN  e > c + 1 /\ e < Len(text) /\ text[e + 1] \in {";", "}"}

\* /[a-zA-Z#.][^{]*\{[^}]*\}/.test(text)
hasCssRules(text) ==
    \E p \in 0..(Len(text) - 1) :
        /\ text[p + 1] \in Letters \cup {"#", "."}
        /\ LET b == RunTo(text, p + 1, {"{"})
           IN  b < Len(text) /\ RunTo(text, b + 1, {"}"}) < Len(text)

CodeWords == {
    <<"f", "u", "n", "c", "t", "i", "o", "n", " ">>,
    <<"v", "a", "r", " ">>,
    <<"c", "o", "n", "s", "t", " ">>,
    <<"l", "e", "t", " ">>,
    <<"r", "e", "t", "u", "r", "n", " ">>,
    <<"i", "f", " ", "(">>,
    <<"e", "l", "s", "e", " ">>,
    <<"f", "o", "r", " ", "(">>,
    <<"w", "h", "i", "l", "e", " ", "(">>}

\* /function |var |const |let |return |if \(|else |for \(|while \(/.test(text)
looksLikeCode(text) == \E w \in CodeWords : Includes(text, w)

CommonCssProps == {
    <<"m", "a", "r", "g", "i", "n">>,
    <<"p", "a", "d", "d", "i", "n", "g">>,
    <<"b", "a", "c", "k", "g", "r", "o", "u", "n", "d">>,
    <<"c", "o", "l", "o", "r">>,
    <<"f", "o", "n", "t">>,
    <<"w", "i", "d", "t", "h">>,
    <<"h", "e", "i", "g", "h", "t">>,
    <<"p", "o", "s", "i", "t", "i", "o", "n">>,
    <<"d", "i", "s", "p", "l", "a", "y">>}

\* /(margin|padding|...|display)/.test(text)
hasCommonCssProps(text) == \E w \in CommonCssProps : Includes(text, w)

ShortText == 100

isLikelyCss(text) ==
    IF Len(text) < ShortText THEN
        hasCssProperties(text) /\ hasCssRules(text) /\ hasCommonCssProps(text)
            /\ ~looksLikeCode(text)
    ELSE hasCssProperties(text) /\ hasCssRules(text) /\ ~looksLikeCode(text)

\* pattern.exec(html) for each of commonPatterns, in their order
commonPatterns(doc) ==
    <<FirstAfterScript(doc, 0), FirstAfterTitle(doc, 0),
      FirstAfterMeta(doc, 0), FirstAfterHead(doc, 0)>>

\* /<style[^>]*>/.test(html)
HasStyleTag(doc) ==
    \E i \in 0..(Len(doc) - 6) :
        /\ OccursAt(doc, <<"<", "s", "t", "y", "l", "e">>, i)
        /\ RunTo(doc, i + 6, {">"}) < Len(doc)

\* `<style>\n${potentialCss}\n</style>`
styledCss(potentialCss) ==
    <<"<", "s", "t", "y", "l", "e", ">", "\n">> \o potentialCss
        \o <<"\n", "<", "/", "s", "t", "y", "l", "e", ">">>

HeadClose == <<"<", "/", "h", "e", "a", "d", ">">>

BodyOpen == <<"<", "b", "o", "d", "y">>

\* lines 1208-1238
StandaloneFix(doc) ==
    LET m == FirstStandalone(doc, 0)
        css == styledCss(m.groups[1])
    IN  IF HasStyleTag(doc) \/ ~m.found \/ ~isLikelyCss(m.groups[1]) THEN
            [fixedHtml |-> doc, fixCount |-> 0, exhausted |-> FALSE]
        ELSE [fixedHtml |->
                  IF Includes(doc, HeadClose)
                  THEN ReplaceFirst(doc, HeadClose, css \o <<"\n">> \o HeadClose)
                  ELSE IF Includes(doc, BodyOpen)
                  THEN ReplaceFirst(doc, BodyOpen, css \o <<"\n">> \o BodyOpen)
                  ELSE ReplaceFirst(doc, m.groups[1], css),
              fixCount |-> 1, exhausted |-> FALSE]

RECURSIVE StyleTagsFrom(_, _)
\* lines 1178-1204 for the matches ms of commonPatterns on doc, and below
\* them the standalone strategy
StyleTagsGiven(doc, fuel, ms) ==
    LET hits == {k \in 1..4 : ms[k].found /\ isLikelyCss(ms[k].groups[1])}
        potentialCss == ms[Least(hits)].groups[1]
        wrapped == ReplaceFirst(doc, potentialCss, styledCss(potentialCss))
        recursiveResult == StyleTagsFrom(wrapped, fuel - 1)
    IN  IF hits # {} THEN
            [fixedHtml |-> recursiveResult.fixedHtml,
             fixCount |-> 1 + recursiveResult.fixCount,
             exhausted |-> recursiveResult.exhausted]
        ELSE StandaloneFix(doc)

\* fixMissingStyleTags at call depth MaxDepth - fuel.  fixCount is a local
\* of each call, so the guard of line 1195 reads 1 < 5 and the call always
\* recurses; the model follows the recursion MaxDepth calls deep and marks
\* what is still recursing there as exhausted.  (The patterns are run once
\* per call and their matches handed on.)
StyleTagsFrom(doc, fuel) ==
    IF fuel = 0 THEN [fixedHtml |-> doc, fixCount |-> 0, exhausted |-> TRUE]
    ELSE CHOOSE r \in {StyleTagsGiven(doc, fuel, ms) : ms \in {commonPatterns(doc)}} :
             TRUE

fixMissingStyleTags(doc) == StyleTagsFrom(doc, MaxDepth)

---------------------------------------------------------------------------
(* fixMissingStyleTags on documents with bare rules *)

BareRule ==
    <<"b", "o", "d", "y", " ", "{", " ", "c", "o", "l", "o", "r", ":", " ",
      "r", "e", "d", ";", " ", "}">>

StyleParts == {
    BareRule,
    <<"<", "h", "e", "a", "d", ">">>,
    HeadClose,
    <<"\n">>,
    <<"<", "t", "i", "t", "l", "e", ">", "t", "<", "/", "t", "i", "t", "l", "e", ">">>,
    <<"<", "b", "o", "d", "y", ">">>,
    <<"<", "s", "t", "y", "l", "e", ">">>,
    <<".", "a", " ", "{", " ", "t", "o", "p", ":", " ", "0", ";", " ", "}">>}

StyleDocs == TextsOver(StyleParts, MaxParts)

InitStyle ==
    /\ pc = "style"
    /\ html \in StyleDocs
    /\ matches = <<>>
    /\ cursor = 0
    /\ result = <<>>
    /\ totalFixes = 0
    /\ oracleCalls = 0
    /\ block = NoBlock
    /\ ParenIdle
    /\ FileIdle

\* lines 1166-1241, returning
FixMissingStyleTags ==
    /\ pc = "style"
    /\ \E r \in {fixMissingStyleTags(html)} :
          /\ ~r.exhausted
          /\ result' = r.fixedHtml
          /\ totalFixes' = r.fixCount
    /\ pc' = "style-done"
    /\ UNCHANGED <<fileVars, html, matches, cursor, oracleCalls, block, parenVars>>

\* lines 1193-1199, the recursion still descending MaxDepth calls deep
StyleRecursionDeep ==
    /\ pc = "style"
    /\ fixMissingStyleTags(html).exhausted
    /\ pc' = "style-deep"
    /\ UNCHANGED <<fileVars, html, matches, cursor, result, totalFixes, oracleCalls,
                   block, parenVars>>

NextStyle == FixMissingStyleTags \/ StyleRecursionDeep

SpecStyle == InitStyle /\ [][NextStyle]_vars

\* the bare rule sits directly after </head>, possibly on the next line
RuleAfterHeadClose(doc) ==
    \/ Includes(doc, HeadClose \o BareRule)
    \/ Includes(doc, HeadClose \o <<"\n">> \o BareRule)

\* the rule wrapped in a style element that ends right before </head>
WrappedBeforeHeadClose(doc) ==
    \/ Includes(doc, styledCss(BareRule) \o HeadClose)
    \/ Includes(doc, styledCss(BareRule) \o <<"\n">> \o HeadClose)

\* C9: a document with no <style> tag and the bare rule body { color: red; }
\* directly after </head> comes back from fixMissingStyleTags with fix
\* count 1 and the rule wrapped in <style>...</style> right before </head>.
C9_ScenarioC ==
    (pc \in {"style-done", "style-deep"} /\ ~HasStyleTag(html)
         /\ RuleAfterHeadClose(html))
        => /\ pc = "style-done"
           /\ totalFixes = 1
           /\ WrappedBeforeHeadClose(result)

---------------------------------------------------------------------------
(* Files *)

\* the bytes above 0x7F the files of the model hold; every other byte is
\* ASCII and is written as its character
HighBytes == {"C3", "A9", "E9", "EF", "BF", "BD"}

RECURSIVE Decode(_)
\* fs.readFileSync(path, 'utf8'): C3 A9 is U+00E9, EF BF BD is U+FFFD, and a
\* high byte that starts no complete sequence decodes to U+FFFD
Decode(bytes) ==
    IF bytes = <<>> THEN <<>>
    ELSE IF Len(bytes) >= 2 /\ SubSeq(bytes, 1, 2) = <<"C3", "A9">>
    THEN <<"U+00E9">> \o Decode(SubSeq(bytes, 3, Len(bytes)))
    ELSE IF Len(bytes) >= 3 /\ SubSeq(bytes, 1, 3) = <<"EF", "BF", "BD">>
    THEN <<"U+FFFD">> \o Decode(SubSeq(bytes, 4, Len(bytes)))
    ELSE IF Head(bytes) \in HighBytes
    THEN <<"U+FFFD">> \o Decode(Tail(bytes))
    ELSE <<Head(bytes)>> \o Decode(Tail(bytes))

\* a mis-encoding writer: one byte per character, "?" for what has none
EncodeOneByte(text) ==
    [i \in 1..Len(text) |-> IF text[i] \in {"U+00E9", "U+FFFD"} THEN "?" ELSE text[i]]

RECURSIVE Encode(_)
\* fs.writeFileSync(path, text) and fs.writeFileSync(path, text, 'utf8')
Encode(text) ==
    IF text = <<>> THEN <<>>
    ELSE (IF Head(text) = "U+00E9" THEN <<"C3", "A9">>
          ELSE IF Head(text) = "U+FFFD" THEN <<"EF", "BF", "BD">>
          ELSE <<Head(text)>>) \o Encode(Tail(text))

Absent == [kind |-> "absent"]

Directory == [kind |-> "directory"]

FileOf(bytes) == [kind |-> "file", bytes |-> bytes]

\* `${filePath}.backup`
BackupPath(filePath) == filePath \o <<".backup">>

PagePath == <<"page.html">>

DirPath == <<"sketches">>

GonePath == <<"gone.html">>

Paths == {PagePath, DirPath, GonePath, BackupPath(PagePath),
          BackupPath(DirPath), BackupPath(GonePath)}

---------------------------------------------------------------------------
(* processHtmlFile and the CLI entry *)

\* the passes that need the page-execution oracle or a style block rewrite
\* the document as the oracle's findings direct; the rewritten document is
\* represented by the input followed by a comment naming the pass
PatchedBy(doc, mark) == doc \o <<"<", "!", "-", "-", mark, "-", "-", ">">>

Returned(doc, n) == [threw |-> FALSE, fixedHtml |-> doc, fixCount |-> n]

Threw(doc) == [threw |-> TRUE, fixedHtml |-> doc, fixCount |-> 0]

\* what a pass can come back with: no fix, one fix while the model's budget
\* of oracle fixes lasts, or an exception
PassOutcomes(doc, mark, budget, mayThrow) ==
    {Returned(doc, 0)}
        \cup (IF budget > 0 THEN {Returned(PatchedBy(doc, mark), 1)} ELSE {})
        \cup (IF mayThrow THEN {Threw(doc)} ELSE {})

\* /new THREE\.ShaderMaterial\(/i.test(html); the documents of the model
\* spell it as the source does
containsShaderMaterial(doc) ==
    Includes(doc, <<"n", "e", "w", " ", "T", "H", "R", "E", "E", ".", "S", "h",
                    "a", "d", "e", "r", "M", "a", "t", "e", "r", "i", "a", "l",
                    "(">>)

\* extractScripts(html): the script blocks whose content is not blank
extractScripts(doc) ==
    LET found == ScriptMatches(doc, 0)
        kept == {k \in 1..Len(found) : Trim(found[k].scriptContent) # <<>>}
    IN  [n \in 1..Cardinality(kept) |->
            found[CHOOSE k \in kept :
                      Cardinality({j \in kept : j <= k}) = n]]

\* /<style[^>]*>([\s\S]*?)<\/style>/gi finds a block
HasStyleBlock(doc) ==
    \E i \in 0..(Len(doc) - 6) :
        /\ OccursAt(doc, <<"<", "s", "t", "y", "l", "e">>, i)
        /\ LET g == RunTo(doc, i + 6, {">"})
           IN  g < Len(doc)
               /\ IndexOfFrom(doc, <<"<", "/", "s", "t", "y", "l", "e", ">">>, g + 1) # -1

\* a write that persists however many fixes were counted
AlwaysPersist(fixes) == TRUE

\* totalFixes > 0, the guard of both writes of the repaired document
ShouldPersist(fixes) == fixes > 0

RECURSIVE Sum(_)
Sum(ns) == IF ns = <<>> THEN 0 ELSE Head(ns) + Sum(Tail(ns))

\* currentHtml = r.fixedHtml; totalFixes += r.fixCount
Absorb(p, r) ==
    [p EXCEPT !.currentHtml = r.fixedHtml,
              !.totalFixes = @ + r.fixCount,
              !.counts = Append(@, r.fixCount)]

Rejected(p) == [p EXCEPT !.outcome = "rejected"]

\* the entry of writeLog for fs.writeFileSync(path, text) by p
Written(p, path, text) ==
    [path |-> path, data |-> Encode(text), text |-> text, counts |-> p.counts]

PipelineItems == {
    EncodedScriptTag,
    <<"<", "s", "c", "r", "i", "p", "t", ">", "f", "(", "x", "<", "/", "s",
      "c", "r", "i", "p", "t", ">">>,
    <<"<", "s", "c", "r", "i", "p", "t", ">", "f", "(", ")", "<", "/", "s",
      "c", "r", "i", "p", "t", ">">>,
    <<"n", "e", "w", " ", "T", "H", "R", "E", "E", ".", "S", "h", "a", "d",
      "e", "r", "M", "a", "t", "e", "r", "i", "a", "l", "(">>,
    BareRule,
    <<"C3", "A9">>,
    <<"E9">>}

\* what page.html holds, in bytes
PipelineFiles == TextsOver(PipelineItems, MaxItems)

\* the paths the process is not permitted to write
LockedSets == {{}, {BackupPath(PagePath)}, {PagePath}}

InitPipeline ==
    /\ pc = "cli"
    /\ \E bytes \in PipelineFiles :
          disk = [p \in Paths |->
                     IF p = PagePath THEN FileOf(bytes)
                     ELSE IF p = DirPath THEN Directory ELSE Absent]
    /\ \/ env \in {[file |-> PagePath, locked |-> l] : l \in LockedSets}
       \/ /\ env \in {[file |-> f, locked |-> {}] : f \in {NoFile, GonePath, DirPath}}
          /\ disk[PagePath] = FileOf(<<>>)
    /\ proc = NoProc
    /\ writeLog = <<>>
    /\ exitCode = -1
    /\ ScriptsIdle
    /\ ParenIdle

\* !file || !fs.existsSync(file)
NothingToRepair(file) ==
    IF file = NoFile THEN TRUE ELSE disk[file] = Absent

\* lines 2459-2464: no argument, or nothing at that path
CliUsage ==
    /\ pc = "cli"
    /\ NothingToRepair(env.file)
    /\ exitCode' = 1
    /\ pc' = "exited"
    /\ UNCHANGED <<env, disk, proc, writeLog, scriptVars, parenVars>>

\* lines 2466-2467 and 2382: the call of processHtmlFile(file)
CliCall ==
    /\ pc = "cli"
    /\ ~NothingToRepair(env.file)
    /\ proc' = [NoProc EXCEPT !.running = TRUE, !.filePath = env.file]
    /\ pc' = "backup"
    /\ UNCHANGED <<env, disk, writeLog, exitCode, scriptVars, parenVars>>

\* lines 2383-2386: readFileSync throws on a directory, writeFileSync on a
\* path that may not be written
ReadAndBackup ==
    /\ pc = "backup"
    /\ LET target == disk[proc.filePath]
           backupPath == BackupPath(proc.filePath)
       IN  IF target.kind # "file" THEN
               /\ proc' = Rejected(proc)
               /\ pc' = "rejected"
               /\ UNCHANGED <<disk, writeLog>>
           ELSE \E original \in {Decode(target.bytes)} :
               \E p \in {[proc EXCEPT !.initial = target.bytes,
                                      !.original = original]} :
                   IF backupPath \in env.locked THEN
                       /\ proc' = Rejected(p)
                       /\ pc' = "rejected"
                       /\ UNCHANGED <<disk, writeLog>>
                   ELSE
                       /\ proc' = p
                       /\ disk' = [disk EXCEPT
                                     ![backupPath] = FileOf(Encode(original))]
                       /\ writeLog' = Append(writeLog,
                                             Written(p, backupPath, original))
                       /\ pc' = "malformed"
    /\ UNCHANGED <<env, exitCode, scriptVars, parenVars>>

\* lines 2390-2392
RunMalformedTags ==
    /\ pc = "malformed"
    /\ \E r \in {fixMalformedHtmlTags(proc.original)} :
           proc' = [proc EXCEPT !.currentHtml = r.fixedHtml,
                                !.totalFixes = r.fixCount,
                                !.counts = <<r.fixCount>>]
    /\ pc' = "style"
    /\ UNCHANGED <<env, disk, writeLog, exitCode, scriptVars, parenVars>>

\* lines 2397-2399; a recursion that does not end exhausts the call stack
\* and throws
RunMissingStyleTags ==
    /\ pc = "style"
    /\ proc.running
    /\ \E r \in {fixMissingStyleTags(proc.currentHtml)} :
           IF r.exhausted
           THEN proc' = Rejected(proc) /\ pc' = "rejected"
           ELSE proc' = Absorb(proc, r) /\ pc' = "cdn"
    /\ UNCHANGED <<env, disk, writeLog, exitCode, scriptVars, parenVars>>

\* one pass awaited by processHtmlFile: r is what it came back with
AfterPass(r, next) ==
    /\ IF r.threw
       THEN proc' = Rejected(proc) /\ pc' = "rejected"
       ELSE /\ proc' = [Absorb(proc, r) EXCEPT
                          !.oracleFixes = IF r.fixCount > 0 THEN @ + 1 ELSE @]
            /\ pc' = next
    /\ UNCHANGED <<env, disk, writeLog, exitCode, scriptVars, parenVars>>

\* lines 2403-2405; the write of the temp file at line 598 is outside the
\* pass's try
RunCdnImports ==
    /\ pc = "cdn"
    /\ \E r \in PassOutcomes(proc.currentHtml, "c",
                             MaxOracleFixes - proc.oracleFixes, TRUE) :
          AfterPass(r, "function")

\* lines 2408-2410; the write of the temp file at line 1882 is outside the
\* pass's try
RunNotAFunction ==
    /\ pc = "function"
    /\ \E r \in PassOutcomes(proc.currentHtml, "n",
                             MaxOracleFixes - proc.oracleFixes, TRUE) :
          AfterPass(r, "css")

\* lines 2414-2416; without a style block the pass returns at line 814
RunCssStyles ==
    /\ pc = "css"
    /\ \E r \in PassOutcomes(proc.currentHtml, "s",
                             IF HasStyleBlock(proc.currentHtml)
                             THEN MaxOracleFixes - proc.oracleFixes ELSE 0,
                             FALSE) :
          AfterPass(r, "undefined")

\* lines 2420-2422; without a script the pass returns at line 1372, with one
\* it writes the temp file at line 1525, outside any try
RunUndefinedVariables ==
    /\ pc = "undefined"
    /\ \E r \in PassOutcomes(proc.currentHtml, "u",
                             IF extractScripts(proc.currentHtml) # <<>>
                             THEN MaxOracleFixes - proc.oracleFixes ELSE 0,
                             extractScripts(proc.currentHtml) # <<>>) :
          AfterPass(r, "call-scripts")

\* line 2426: the call of extractAndFixScripts(currentHtml)
CallScripts ==
    /\ pc = "call-scripts"
    /\ html' = proc.currentHtml
    /\ pc' = "scripts"
    /\ UNCHANGED <<fileVars, matches, cursor, result, totalFixes, oracleCalls,
                   block, parenVars>>

\* lines 2427-2428
AfterScripts ==
    /\ pc = "scripts-done"
    /\ proc.running
    /\ proc' = Absorb(proc, [fixedHtml |-> result, fixCount |-> totalFixes])
    /\ pc' = "shader"
    /\ UNCHANGED <<env, disk, writeLog, exitCode, scriptVars, parenVars>>

\* lines 2430-2445; the write of the temp file at line 450 is outside the
\* pass's try
RunShaderFix ==
    /\ pc = "shader"
    /\ IF ~containsShaderMaterial(proc.currentHtml) THEN
           /\ pc' = "persist"
           /\ UNCHANGED <<proc, disk, writeLog>>
       ELSE \E r \in PassOutcomes(proc.currentHtml, "g",
                                  MaxOracleFixes - proc.oracleFixes, TRUE) :
           \E p \in {Absorb(proc, r)} :
               IF r.threw THEN
                   /\ proc' = Rejected(proc)
                   /\ pc' = "rejected"
                   /\ UNCHANGED <<disk, writeLog>>
               ELSE IF r.fixCount > 0 /\ ShouldPersist(p.totalFixes) THEN
                   IF p.filePath \in env.locked THEN
                       /\ proc' = Rejected(p)
                       /\ pc' = "rejected"
                       /\ UNCHANGED <<disk, writeLog>>
                   ELSE
                       /\ proc' = p
                       /\ disk' = [disk EXCEPT
                                     ![p.filePath] = FileOf(Encode(p.currentHtml))]
                       /\ writeLog' = Append(writeLog,
                                             Written(p, p.filePath, p.currentHtml))
                       /\ pc' = "persist"
               ELSE /\ proc' = p
                    /\ pc' = "persist"
                    /\ UNCHANGED <<disk, writeLog>>
    /\ UNCHANGED <<env, exitCode, scriptVars, parenVars>>

\* lines 2448-2455
Persist ==
    /\ pc = "persist"
    /\ IF ~ShouldPersist(proc.totalFixes) THEN
           /\ proc' = [proc EXCEPT !.outcome = "resolved"]
           /\ pc' = "resolved"
           /\ UNCHANGED <<disk, writeLog>>
       ELSE IF proc.filePath \in env.locked THEN
           /\ proc' = Rejected(proc)
           /\ pc' = "rejected"
           /\ UNCHANGED <<disk, writeLog>>
       ELSE
           /\ proc' = [proc EXCEPT !.outcome = "resolved"]
           /\ disk' = [disk EXCEPT
                         ![proc.filePath] = FileOf(Encode(proc.currentHtml))]
           /\ writeLog' = Append(writeLog,
                                 Written(proc, proc.filePath, proc.currentHtml))
           /\ pc' = "resolved"
    /\ UNCHANGED <<env, exitCode, scriptVars, parenVars>>

\* lines 2467-2469: the fulfilment handler
ThenExit ==
    /\ pc = "resolved"
    /\ exitCode' = IF proc.totalFixes > 0 THEN 0 ELSE 1
    /\ pc' = "exited"
    /\ UNCHANGED <<env, disk, proc, writeLog, scriptVars, parenVars>>

\* lines 2466-2473: the promise has no rejection handler and the try block
\* has only the synchronous call in it, which does not throw.  What becomes
\* of the process is the runtime's policy for unhandled rejections: end it
\* with code 1 ("throw", "strict"), or warn and let it run out with code 0
\* ("warn", "none", and the default before Node 15).
UnhandledRejection ==
    /\ pc = "rejected"
    /\ \E policy \in {"throw", "warn"} :
          exitCode' = IF policy = "throw" THEN 1 ELSE 0
    /\ pc' = "exited"
    /\ UNCHANGED <<env, disk, proc, writeLog, scriptVars, parenVars>>

NextPipeline ==
    \/ CliUsage
    \/ CliCall
    \/ ReadAndBackup
    \/ RunMalformedTags
    \/ RunMissingStyleTags
    \/ RunCdnImports
    \/ RunNotAFunction
    \/ RunCssStyles
    \/ RunUndefinedVariables
    \/ CallScripts
    \/ CollectScripts
    \/ ProcessCleanScript
    \/ ProcessBrokenScript
    \/ ReturnScripts
    \/ AfterScripts
    \/ RunShaderFix
    \/ Persist
    \/ ThenExit
    \/ UnhandledRejection

SpecPipeline == InitPipeline /\ [][NextPipeline]_vars

---------------------------------------------------------------------------
(* Properties of processHtmlFile and the CLI entry *)

\* the writes of the run that went to the input path
InputWrites == {i \in 1..Len(writeLog) : writeLog[i].path = proc.filePath}

\* the run is over and fulfilled its promise
Fulfilled == proc.outcome = "resolved"

RECURSIVE WellFormedUtf8(_)
\* the bytes are ASCII, C3 A9 and EF BF BD sequences only
WellFormedUtf8(bytes) ==
    IF bytes = <<>> THEN TRUE
    ELSE IF Head(bytes) \notin HighBytes THEN WellFormedUtf8(Tail(bytes))
    ELSE IF Len(bytes) >= 2 /\ bytes[1] = "C3" /\ bytes[2] = "A9"
    THEN WellFormedUtf8(SubSeq(bytes, 3, Len(bytes)))
    ELSE IF Len(bytes) >= 3 /\ bytes[1] = "EF" /\ bytes[2] = "BF" /\ bytes[3] = "BD"
    THEN WellFormedUtf8(SubSeq(bytes, 4, Len(bytes)))
    ELSE FALSE

\* a pass has run or the input path has been written
PastBackup == proc.running /\ (proc.counts # <<>> \/ InputWrites # {})

\* C2 as the code has it: no pass runs and the input path is not written
\* before <path>.backup has been written, whether or not a fix follows; the
\* backup holds the original as decoded from UTF-8 and encoded again, which
\* is the original byte for byte when the file is well-formed UTF-8, and
\* nothing overwrites it afterwards.
C2_BackupFirst ==
    PastBackup =>
        /\ writeLog # <<>>
        /\ writeLog[1].path = BackupPath(proc.filePath)
        /\ InputWrites \subseteq 2..Len(writeLog)
        /\ Decode(writeLog[1].data) = Decode(proc.initial)
        /\ WellFormedUtf8(proc.initial) => writeLog[1].data = proc.initial
        /\ disk[BackupPath(proc.filePath)] = FileOf(writeLog[1].data)

C2_Witness ==
    /\ Fulfilled
    /\ InputWrites # {}
    /\ ~WellFormedUtf8(proc.initial)
    /\ disk[BackupPath(proc.filePath)] = FileOf(Encode(Decode(proc.initial)))

\* C2: in every run the backup <path>.backup, holding the original content
\* byte for byte, is written before any pass runs and before any write to
\* the original path, whether or not any fix is later applied.
C2_BackupByteForByte ==
    PastBackup =>
        /\ writeLog # <<>>
        /\ writeLog[1].path = BackupPath(proc.filePath)
        /\ writeLog[1].data = proc.initial

\* C3: the CLI exits with code 0 exactly when processHtmlFile reports at
\* least one fix, and with code 1 otherwise: no or a nonexistent file
\* argument, 0 fixes, and an exception or rejection escaping processHtmlFile.
C3_ExitCodes ==
    pc = "exited" =>
        IF Fulfilled /\ proc.totalFixes > 0 THEN exitCode = 0 ELSE exitCode = 1

\* the passes of a run in the order processHtmlFile calls them; the entry
\* of proc.counts at that place is what the pass reported
PassOrder ==
    <<"malformed", "style", "cdn", "function", "css", "undefined", "scripts",
      "shader">>

\* the shader remediation ran in this run and applied a fix
ShaderFixed == Len(proc.counts) = Len(PassOrder) /\ proc.counts[Len(PassOrder)] > 0

\* C15: when the shader remediation is triggered and applies a fix, none of
\* the malformed-markup, style, CDN, not-a-function, CSS, undefined-variable
\* or delimiter passes modifies the document in that run.
C15_ShaderPreempts ==
    ShaderFixed
        => /\ \A k \in 1..(Len(PassOrder) - 1) : proc.counts[k] = 0
           /\ proc.currentHtml = PatchedBy(proc.original, "g")

\* the step ends the run with a rejection because a read or write of the
\* file to repair or of its backup failed
FileAccessFailed ==
    \/ pc = "backup"
    \/ /\ pc = "persist"
       /\ proc.filePath \in env.locked
    \/ /\ pc = "shader"
       /\ proc.filePath \in env.locked
       /\ Len(proc'.counts) = Len(PassOrder)

\* C12: an exception raised inside a pass does not abort the pipeline: the
\* run is rejected only by a failed read or write of the file itself, and
\* every run that gets past the backup goes through all its passes.
C12_PassFailureContained ==
    [][(pc' = "rejected") => FileAccessFailed]_vars

---------------------------------------------------------------------------
(* The passes that load the page in a browser: temp file and session *)

BrowserPasses == {"shader", "cdn", "undefined", "function"}

\* path.join(process.cwd(), '_temp_<pass>_check.html')
TempFile(kind) == <<"_temp_", kind, "_check.html">>

TempFiles == {TempFile(kind) : kind \in BrowserPasses}

\* the frame of a pass: html is its argument, browser the session it
\* launched, pending what its inner try block ended with, result what it
\* returns
NoPass ==
    [running |-> FALSE, outcome |-> "none", kind |-> "none", html |-> <<>>,
     browser |-> "none", pending |-> "none", result |-> NoResult]

\* a cleanup that leaves the file where it is
KeepTemp(files, tempFile, ok) == files

\* fs.unlinkSync(tempFile) inside try { } catch (e) { }: the file is gone
\* unless the call throws
UnlinkTemp(files, tempFile, ok) ==
    IF ok THEN [files EXCEPT ![tempFile] = Absent] ELSE files

\* the catch block's return value: the document as it came in and no fix
\* (for detectUndefinedVariableErrors the empty list of errors, shown the
\* same way); fixNotAFunctionErrors returns its fixedHtml and fixCount as
\* they stand, with the fixes made before the exception
CaughtResult(p) ==
    IF p.kind = "function" /\ p.pending = "partial"
    THEN [fixed |-> PatchedBy(p.html, "b"), fixCount |-> 1]
    ELSE [fixed |-> p.html, fixCount |-> 0]

PassDocs == {
    <<"<", "p", ">">>,
    <<"n", "e", "w", " ", "T", "H", "R", "E", "E", ".", "S", "h", "a", "d",
      "e", "r", "M", "a", "t", "e", "r", "i", "a", "l", "(">>}

InitBrowser ==
    /\ pc = "temp-write"
    /\ \E kind \in BrowserPasses, doc \in PassDocs :
          proc = [NoPass EXCEPT !.running = TRUE, !.kind = kind, !.html = doc]
    /\ \E stale \in BOOLEAN :
          disk = [p \in TempFiles |-> IF stale THEN FileOf(<<>>) ELSE Absent]
    /\ \E locked \in {{}, TempFiles} : env = [file |-> NoFile, locked |-> locked]
    /\ writeLog = <<>>
    /\ exitCode = -1
    /\ ScriptsIdle
    /\ ParenIdle

\* fs.writeFileSync(tempFile, html, 'utf8'), before the try block: a throw
\* leaves the pass
WriteTemp ==
    /\ pc = "temp-write"
    /\ IF TempFile(proc.kind) \in env.locked THEN
           /\ proc' = [proc EXCEPT !.outcome = "rejected"]
           /\ pc' = "pass-threw"
           /\ UNCHANGED <<disk, writeLog>>
       ELSE
           /\ disk' = [disk EXCEPT ![TempFile(proc.kind)] = FileOf(Encode(proc.html))]
           /\ writeLog' = Append(writeLog,
                  [op |-> "write", path |-> TempFile(proc.kind), ok |-> TRUE])
           /\ pc' = "launch"
           /\ UNCHANGED proc
    /\ UNCHANGED <<env, exitCode, scriptVars, parenVars>>

\* await puppeteer.launch(...)
Launch ==
    /\ pc = "launch"
    /\ \E ok \in BOOLEAN :
          IF ok THEN proc' = [proc EXCEPT !.browser = "open"] /\ pc' = "new-page"
          ELSE pc' = "catch" /\ UNCHANGED proc
    /\ UNCHANGED <<env, disk, writeLog, exitCode, scriptVars, parenVars>>

\* await browser.newPage()
NewPage ==
    /\ pc = "new-page"
    /\ \E ok \in BOOLEAN : pc' = IF ok THEN "goto" ELSE "catch"
    /\ UNCHANGED <<fileVars, scriptVars, parenVars>>

\* await page.goto(..., { waitUntil: 'networkidle0', timeout: 30000 }) and
\* the wait that follows; in detectUndefinedVariableErrors both are inside
\* an inner try whose finally closes the browser
Goto ==
    /\ pc = "goto"
    /\ \E ok \in BOOLEAN :
          IF proc.kind = "undefined" THEN
              /\ proc' = [proc EXCEPT !.pending = IF ok THEN "return" ELSE "throw"]
              /\ pc' = "inner-finally"
          ELSE /\ pc' = IF ok THEN "close" ELSE "catch"
               /\ UNCHANGED proc
    /\ UNCHANGED <<env, disk, writeLog, exitCode, scriptVars, parenVars>>

\* await browser.close() on the path where the page loaded
CloseBrowser ==
    /\ pc = "close"
    /\ \E ok \in BOOLEAN :
          IF ok THEN proc' = [proc EXCEPT !.browser = "closed"] /\ pc' = "analyse"
          ELSE pc' = "catch" /\ UNCHANGED proc
    /\ UNCHANGED <<env, disk, writeLog, exitCode, scriptVars, parenVars>>

\* detectUndefinedVariableErrors: finally { await browser.close(); }, then
\* the return or the throw the inner try ended with
InnerFinally ==
    /\ pc = "inner-finally"
    /\ \E ok \in BOOLEAN :
          IF ok /\ proc.pending = "return" THEN
              /\ proc' = [proc EXCEPT !.browser = "closed",
                                      !.result = [fixed |-> proc.html, fixCount |-> 0]]
              /\ pc' = "finally"
          ELSE IF ok THEN
              /\ proc' = [proc EXCEPT !.browser = "closed"]
              /\ pc' = "catch"
          ELSE pc' = "catch" /\ UNCHANGED proc
    /\ UNCHANGED <<env, disk, writeLog, exitCode, scriptVars, parenVars>>

\* after the session: nothing found (early return), a fix from the oracle,
\* or an exception on the way (the CDN pass catches its oracle call itself)
Analyse ==
    /\ pc = "analyse"
    /\ \E r \in PassOutcomes(proc.html, "b", 1, proc.kind # "cdn") :
          IF r.threw THEN
              /\ pc' = "catch"
              /\ \E made \in (IF proc.kind = "function" THEN BOOLEAN ELSE {FALSE}) :
                    proc' = [proc EXCEPT !.pending = IF made THEN "partial" ELSE @]
          ELSE /\ proc' = [proc EXCEPT !.result =
                              [fixed |-> r.fixedHtml, fixCount |-> r.fixCount]]
               /\ pc' = "finally"
    /\ UNCHANGED <<env, disk, writeLog, exitCode, scriptVars, parenVars>>

\* catch (error) { ...; return { fixedHtml: html, fixCount: 0 } }
Catch ==
    /\ pc = "catch"
    /\ proc' = [proc EXCEPT !.result = CaughtResult(proc)]
    /\ pc' = "finally"
    /\ UNCHANGED <<env, disk, writeLog, exitCode, scriptVars, parenVars>>

\* finally { try { fs.unlinkSync(tempFile) } catch (e) { } }
Finally ==
    /\ pc = "finally"
    /\ \E ok \in BOOLEAN :
          /\ disk' = UnlinkTemp(disk, TempFile(proc.kind), ok)
          /\ writeLog' = Append(writeLog,
                 [op |-> "unlink", path |-> TempFile(proc.kind), ok |-> ok])
    /\ proc' = [proc EXCEPT !.running = FALSE, !.outcome = "resolved"]
    /\ pc' = "pass-returned"
    /\ UNCHANGED <<env, exitCode, scriptVars, parenVars>>

NextBrowser ==
    \/ WriteTemp
    \/ Launch
    \/ NewPage
    \/ Goto
    \/ CloseBrowser
    \/ InnerFinally
    \/ Analyse
    \/ Catch
    \/ Finally

SpecBrowser == InitBrowser /\ [][NextBrowser]_vars

\* the pass wrote its temp file
TempWritten ==
    \E k \in 1..Len(writeLog) :
        writeLog[k].op = "write" /\ writeLog[k].path = TempFile(proc.kind)

\* C13: every pass that wrote a temp file ends, on every exit path, with a
\* deletion of that file: it has left its try block only through the
\* finally, the file is gone unless the deletion itself failed, and the
\* deletion, failed or not, leaves the pass's result as it was.  A pass is
\* left without that cleanup only when the temp file could not be written.
C13_TempFileDeleted ==
    /\ []((pc = "pass-returned")
             => /\ TempWritten
                /\ writeLog[Len(writeLog)].op = "unlink"
                /\ writeLog[Len(writeLog)].path = TempFile(proc.kind)
                /\ writeLog[Len(writeLog)].ok => disk[TempFile(proc.kind)] = Absent
                /\ proc.result # NoResult)
    /\ []((pc = "pass-threw") => ~TempWritten)
    /\ [][(pc' = "pass-returned") => proc'.result = proc.result]_vars

\* a page load that timed out, caught, and the file deleted on the way out
C13_Witness ==
    /\ pc = "pass-returned"
    /\ proc.kind = "shader"
    /\ proc.browser = "open"
    /\ proc.result = [fixed |-> proc.html, fixCount |-> 0]
    /\ Len(writeLog) = 2
    /\ writeLog[2].ok
    /\ disk[TempFile("shader")] = Absent

\* C14: a pass never returns with the browser session it launched still open.
C14_SessionClosed ==
    (pc = "pass-returned") => proc.browser # "open"

---------------------------------------------------------------------------
(* fixNotAFunctionErrors: commenting out the blocks that call a missing
   function *)

\* line.endsWith(...) for the endings that continue a statement
Continues(line) ==
    \/ EndsWith(line, <<"(">>) \/ EndsWith(line, <<"{">>) \/ EndsWith(line, <<".">>)
    \/ EndsWith(line, <<"=", ">">>) \/ EndsWith(line, <<"&", "&">>)
    \/ EndsWith(line, <<"|", "|">>) \/ EndsWith(line, <<"?">>)
    \/ EndsWith(line, <<":">>)

\* prevLine.includes(...) for the words that open a statement
OpensStatement(line) ==
    \/ Includes(line, <<"i", "f", " ">>) \/ Includes(line, <<"f", "o", "r", " ">>)
    \/ Includes(line, <<"w", "h", "i", "l", "e", " ">>)
    \/ Includes(line, <<"f", "u", "n", "c", "t", "i", "o", "n", " ">>)
    \/ Includes(line, <<" ", "=", ">", " ">>) \/ Includes(line, <<"t", "r", "y", " ">>)
    \/ Includes(line, <<"c", "a", "t", "c", "h", " ">>)
    \/ Includes(line, <<"e", "l", "s", "e", " ">>)

RECURSIVE BlockStart(_, _, _)
\* the backward loop of findCodeBlock from line index i (0-based)
BlockStart(lines, i, startLine) ==
    IF i < 0 THEN startLine
    ELSE IF Continues(Trim(lines[i + 1])) \/ OpensStatement(Trim(lines[i + 1]))
         THEN BlockStart(lines, i - 1, i)
         ELSE startLine

RECURSIVE BlockEnd(_, _, _, _, _)
\* the forward loop of findCodeBlock from line index i: braces and parens
\* are the open-minus-close counts so far
BlockEnd(lines, i, braces, parens, endLine) ==
    IF i >= Len(lines) THEN endLine
    ELSE LET b == braces + CountChar(lines[i + 1], "{") - CountChar(lines[i + 1], "}")
             p == parens + CountChar(lines[i + 1], "(") - CountChar(lines[i + 1], ")")
         IN  IF b = 0 /\ p = 0 THEN i
             ELSE BlockEnd(lines, i + 1, b, p, i)

\* lines[i].trim().endsWith(';') || lines[i].trim().endsWith('{')
EndsStatementOrOpens(line) ==
    EndsWith(Trim(line), <<";">>) \/ EndsWith(Trim(line), <<"{">>)

\* lines[i].trim().endsWith(';') || lines[i].trim().endsWith('}')
EndsStatementOrCloses(line) ==
    EndsWith(Trim(line), <<";">>) \/ EndsWith(Trim(line), <<"}">>)

\* "Look for statement start": downward from idx, the line after the first
\* one that ends a statement or opens a block
StatementStart(lines, idx) ==
    LET hits == {i \in 0..idx : EndsStatementOrOpens(lines[i + 1])}
    IN  IF hits = {} THEN idx
        ELSE (CHOOSE i \in hits : \A j \in hits : j <= i) + 1

\* "Look for statement end": upward from idx, the first line that ends a
\* statement or closes a block
StatementEnd(lines, idx) ==
    LET hits == {i \in idx..(Len(lines) - 1) : EndsStatementOrCloses(lines[i + 1])}
    IN  IF hits = {} THEN idx
        ELSE CHOOSE i \in hits : \A j \in hits : i <= j

\* findCodeBlock(lines, problematicLineIdx): 0-based startLine and endLine
findCodeBlock(lines, idx) ==
    LET startLine == BlockStart(lines, idx - 1, idx)
        combinedLines == Join(SubSeq(lines, startLine + 1, idx + 1), "\n")
        braces == CountChar(combinedLines, "{") - CountChar(combinedLines, "}")
        parens == CountChar(combinedLines, "(") - CountChar(combinedLines, ")")
        endLine == IF braces > 0 \/ parens > 0
                   THEN BlockEnd(lines, idx + 1, braces, parens, idx)
                   ELSE idx
        line == Trim(lines[idx + 1])
    IN  IF startLine = endLine /\ Includes(line, <<"(">>) /\ Includes(line, <<")">>)
        THEN [startLine |-> StatementStart(lines, idx),
              endLine |-> StatementEnd(lines, idx)]
        ELSE [startLine |-> startLine, endLine |-> endLine]

\* the line numbers (1-based) of the lines that include fullName
ProblemLines(lines, fullName) ==
    LET hits == {i \in 1..Len(lines) : Includes(lines[i], fullName)}
    IN  [n \in 1..Cardinality(hits) |->
            CHOOSE i \in hits : Cardinality({j \in hits : j <= i}) = n]

BlockHeader ==
    <<"/", "/", " ", "E", "R", "R", "O", "R", ":", " ", "B", "l", "o",
      "c", "k", " ", "c", "o", "m", "m", "e", "n", "t", "e", "d", " ",
      "o", "u", "t", " ", "d", "u", "e", " ", "t", "o", " ", "m", "i",
      "s", "s", "i", "n", "g", " ", "f", "u", "n", "c", "t", "i", "o",
      "n", " ">>

\* "// " before every line of the block, under the header line
CommentedOut(blockContent, fullName) ==
    LET blockLines == Split(blockContent, "\n")
    IN  BlockHeader \o fullName \o <<"\n">> \o
            Join([k \in 1..Len(blockLines) |-> <<"/", "/", " ">> \o blockLines[k]], "\n")

\* the fallback of getTargetedFunctionFixes: one fix per problem line, for
\* the block findCodeBlock gives
ManualFixes(scriptLines, problemLines, fullName) ==
    [k \in 1..Len(problemLines) |->
        LET blockInfo == findCodeBlock(scriptLines, problemLines[k] - 1)
        IN  [startLine |-> blockInfo.startLine + 1,
             endLine |-> blockInfo.endLine + 1,
             replacement |-> CommentedOut(
                 Join(Slice(scriptLines, blockInfo.startLine, blockInfo.endLine + 1), "\n"),
                 fullName)]]

\* line.trim().startsWith('//')
IsCommentLine(line) == OccursAt(Trim(line), <<"/", "/">>, 0)

\* lines.every(line => line.trim().startsWith('//'))
AllCommented(replacement) ==
    \A k \in 1..Len(Split(replacement, "\n")) :
        IsCommentLine(Split(replacement, "\n")[k])

RECURSIVE ValidFixes(_)
\* fixes.filter(...): the fixes whose replacement is all comment lines
ValidFixes(fixes) ==
    IF fixes = <<>> THEN <<>>
    ELSE (IF AllCommented(Head(fixes).replacement) THEN <<Head(fixes)>> ELSE <<>>)
             \o ValidFixes(Tail(fixes))

\* getTargetedFunctionFixes for the reply the oracle gives: a failed request
\* or a reply without a JSON array gives the manual fixes
getTargetedFunctionFixes(scriptContent, fullName, problemLines, response) ==
    LET scriptLines == Split(scriptContent, "\n") IN
    IF response.status # "ok" THEN ManualFixes(scriptLines, problemLines, fullName)
    ELSE IF response.body # "array"
         THEN ValidFixes(ManualFixes(scriptLines, problemLines, fullName))
         ELSE ValidFixes(response.fixes)

\* scriptLines[fix.startLine - 1].match(/^\s*/)[0]
Indentation(line) == SubSeq(line, 1, Len(line) - Len(TrimStart(line)))

\* scriptLines.splice(start, deleteCount, ...items)
Splice(lines, start, deleteCount, items) ==
    LET from == Min(start, Len(lines))
        count == Min(Max(deleteCount, 0), Len(lines) - from)
    IN  [lines |-> SubSeq(lines, 1, from) \o items
                       \o SubSeq(lines, from + count + 1, Len(lines)),
         removed |-> SubSeq(lines, from + 1, from + count)]

RECURSIVE ApplyBlockFixes(_, _, _, _)
\* for (const fix of fixes): the lines after the fixes from number k on, and
\* what each splice took out and put in
ApplyBlockFixes(scriptLines, fixes, k, splices) ==
    IF k > Len(fixes) THEN [lines |-> scriptLines, splices |-> splices]
    ELSE LET fix == fixes[k] IN
         IF /\ fix.startLine # 0 /\ fix.endLine # 0 /\ fix.replacement # <<>>
            /\ fix.startLine <= Len(scriptLines) /\ fix.endLine <= Len(scriptLines)
         THEN LET indentation == Indentation(scriptLines[fix.startLine])
                  parts == Split(fix.replacement, "\n")
                  replacementLines == [n \in 1..Len(parts) |-> indentation \o parts[n]]
                  s == Splice(scriptLines, fix.startLine - 1,
                              fix.endLine - fix.startLine + 1, replacementLines)
              IN  ApplyBlockFixes(s.lines, fixes, k + 1,
                      Append(splices, [removed |-> s.removed,
                                       inserted |-> replacementLines]))
         ELSE ApplyBlockFixes(scriptLines, fixes, k + 1, splices)

\* lines 1956-2010 for one script and one missing function: the patched
\* script, the fix counted, the splices made
PatchFunctionCalls(scriptContent, fullName, response) ==
    LET lines == Split(scriptContent, "\n")
        problemLines == ProblemLines(lines, fullName)
        fixes == getTargetedFunctionFixes(scriptContent, fullName, problemLines, response)
    IN  IF Len(problemLines) > 0 /\ Len(fixes) > 0
        THEN LET r == ApplyBlockFixes(lines, fixes, 1, <<>>)
             IN  [fixed |-> Join(r.lines, "\n"), fixCount |-> 1,
                  splices |-> r.splices]
        ELSE [fixed |-> scriptContent, fixCount |-> 0, splices |-> <<>>]

MissingFunction == <<"a", ".", "b">>

FunctionLines == {
    <<"a", ".", "b", "(", ")", ";">>,
    <<" ", " ", "a", ".", "b", "(", ")">>,
    <<"i", "f", " ", "(", "x", ")", " ", "{">>,
    <<"}">>,
    <<"x", " ", "=", " ", "1", ";">>,
    <<"f", "(">>,
    <<")", ";">>}

\* scripts of up to MaxLines lines that call the missing function
FunctionScripts ==
    {s \in UNION {{Join(ls, "\n") : ls \in [1..n -> FunctionLines]} : n \in 1..MaxLines} :
        Includes(s, MissingFunction)}

BlockFixSet ==
    {[startLine |-> a, endLine |-> b, replacement |-> r] :
        a \in {1, 2}, b \in {1, 2},
        r \in {<<"/", "/", " ", "x">>,
               <<"/", "/", " ", "x", "\n", "/", "/", " ", "y">>,
               <<"/", "/", " ", "x", "\n", "y">>}}

BlockReplies ==
    {[status |-> "error", body |-> "prose", fixes |-> <<>>],
     [status |-> "ok", body |-> "prose", fixes |-> <<>>]}
        \cup {[status |-> "ok", body |-> "array", fixes |-> <<f>>] : f \in BlockFixSet}

InitFunction ==
    /\ pc = "function-fix"
    /\ source \in FunctionScripts
    /\ reply \in BlockReplies
    /\ issues = <<>>
    /\ patched = NoResult
    /\ ScriptsIdle
    /\ FileIdle

\* lines 1949-2011 for one script, one missing function and the oracle's reply
FixFunctionCalls ==
    /\ pc = "function-fix"
    /\ issues' = ProblemLines(Split(source, "\n"), MissingFunction)
    /\ patched' = PatchFunctionCalls(source, MissingFunction, reply)
    /\ pc' = "function-fixed"
    /\ UNCHANGED <<fileVars, source, reply, scriptVars>>

NextFunction == FixFunctionCalls

SpecFunction == InitFunction /\ [][NextFunction]_vars

\* "{" minus "}" over some lines
NetBraces(ls) ==
    CountChar(Join(ls, "\n"), "{") - CountChar(Join(ls, "\n"), "}")

\* "(" minus ")" over some lines
NetParens(ls) ==
    CountChar(Join(ls, "\n"), "(") - CountChar(Join(ls, "\n"), ")")

\* C11: every line of every block replacement spliced into a script starts
\* with a comment marker, and the replacement has the same net "{"/"}" and
\* "("/")" counts as the lines it replaces.
C11_BlockBoundarySafety ==
    (pc = "function-fixed")
        => \A k \in 1..Len(patched.splices) :
              LET s == patched.splices[k] IN
              /\ \A n \in 1..Len(s.inserted) :
                    OccursAt(TrimStart(s.inserted[n]), <<"/", "/">>, 0)
              /\ NetBraces(s.inserted) = NetBraces(s.removed)
              /\ NetParens(s.inserted) = NetParens(s.removed)

---------------------------------------------------------------------------
(* getSmartFixFromAI on one-line scripts whose suggested patch matches
   nothing, so that the type-directed heuristic decides *)

HeuristicChars == {"(", ")", ";", "a", " "}

\* every line of up to MaxTokens + 1 characters
HeuristicLines == UNION {[1..n -> HeuristicChars] : n \in 1..(MaxTokens + 1)}

\* a patch for line 1 whose original shares no character with any line
HeuristicFix == [lineNumber |-> 1, original |-> <<"z", "z">>, fixed |-> <<"o", "k">>]

InitHeuristic ==
    /\ pc = "patch"
    /\ source \in HeuristicLines
    /\ \E f \in BOOLEAN :
          reply = [status |-> "ok", fenced |-> f, body |-> "array",
                   fixes |-> <<HeuristicFix>>]
    /\ issues = <<>>
    /\ patched = NoResult
    /\ ScriptsIdle
    /\ FileIdle

SpecHeuristic == InitHeuristic /\ [][NextPatch]_vars

\* the index (1-based) of the last character of line that is c, 0 if none
LastOf(line, c) ==
    LET at == {i \in 1..Len(line) : line[i] = c}
    IN  IF at = {} THEN 0 ELSE CHOOSE i \in at : \A j \in at : j <= i

\* line with the text ins put in front of its character number i
InsertBefore(line, i, ins) ==
    SubSeq(line, 1, i - 1) \o ins \o SubSeq(line, i, Len(line))

\* C21: in the type-directed heuristic a missing-close fix on a line ending
\* in ";" puts the ")" immediately before that trailing ";", also when the
\* line holds earlier ";" characters, and otherwise appends ")" at the line
\* end; an extra-close fix removes exactly the last ")" of the line.
C21_HeuristicEdit ==
    (pc = "patched" /\ Len(patched.log) = 1)
        => /\ (patched.log[1] = "fallback-missing") =>
                /\ patched.fixCount = 1
                /\ IF EndsWith(Trim(source), <<";">>)
                   THEN patched.fixed =
                            InsertBefore(source, LastOf(source, ";"), <<")">>)
                   ELSE patched.fixed = source \o <<")">>
           /\ (patched.log[1] = "fallback-extra") =>
                /\ patched.fixCount = 1
                /\ LastOf(source, ")") > 0
                /\ patched.fixed =
                       SubSeq(source, 1, LastOf(source, ")") - 1)
                           \o SubSeq(source, LastOf(source, ")") + 1, Len(source))

---------------------------------------------------------------------------
(* fixMalformedHtmlTags: the entity-encoded tags of the allow-list *)

\* an entity-encoded tag "&lt;NAME ATTRS&gt;" at i whose NAME, letters after
\* an optional "/", is in the allow-list, and whose ATTRS hold no "&"
ListedTagAt(s, i) ==
    IF ~OccursAt(s, EntLt, i) THEN NoMatch
    ELSE LET a == i + Len(EntLt)
             n == IF OccursAt(s, <<"/">>, a) THEN a + 1 ELSE a
             b == RunOf(s, n, Letters)
             c == RunTo(s, b, {"&"})
         IN  IF b > n /\ OccursAt(s, EntGt, c) /\ Slice(s, a, b) \in criticalTags
             THEN [found |-> TRUE, index |-> i, end |-> c + Len(EntGt),
                   groups |-> <<Slice(s, a, b), Slice(s, b, c)>>]
             ELSE NoMatch

RECURSIVE DecodeListed(_, _)
\* s from position from, every allow-listed encoded tag written as a literal
\* tag with its attributes, all other text as it is
DecodeListed(s, from) ==
    LET at == {j \in from..Len(s) : ListedTagAt(s, j).found}
    IN  IF at = {} THEN SliceFrom(s, from)
        ELSE LET m == ListedTagAt(s, Least(at))
             IN  Slice(s, from, m.index) \o <<"<">> \o m.groups[1]
                     \o m.groups[2] \o <<">">> \o DecodeListed(s, m.end)

\* the document has nothing for the other two rewrite classes: no src
\* attribute after "&lt;" and no empty "&lt;&gt;"
OnlyEntityTags(doc) ==
    /\ AllMalformedScript(doc, 0) = <<>>
    /\ AllMalformedTitle(doc, 0) = <<>>

\* C22: every entity-encoded tag whose name is in the allow-list, closing
\* tags such as &lt;/script&gt; included, is rewritten to the literal tag
\* with its attributes preserved, and every entity-encoded tag whose name is
\* outside the allow-list stays byte-identical and uncounted.
C22_EntityAllowList ==
    (pc = "markup-done" /\ OnlyEntityTags(html))
        => /\ result = DecodeListed(html, 0)
           /\ (DecodeListed(html, 0) = html) => totalFixes = 0

---------------------------------------------------------------------------
(* fixMissingStyleTags: the depth of the recursion *)

\* C23: fixMissingStyleTags terminates on every input document and its
\* recursion is bounded at 5 total fixes: no call chain reports more than 5
\* fixes or is still recursing once 5 fixes have been made, also when the
\* matched CSS text occurs earlier in the document.
C23_BoundedRecursion ==
    /\ pc # "style-deep"
    /\ (pc = "style-done") => totalFixes <= 5

---------------------------------------------------------------------------
(* fixUndefinedVariables and getVariableFixFromAI: one script, one
   identifier, and the reply of the oracle *)

\* new RegExp(`\\b${varName}\\b`) matching at the 0-based position i
WordAt(s, varName, i) ==
    /\ OccursAt(s, varName, i)
    /\ (i = 0 \/ ~IsWord(s[i]))
    /\ (i + Len(varName) = Len(s) \/ ~IsWord(s[i + Len(varName) + 1]))

\* varOccurrences: the 1-based line number of every occurrence, in order
VariableOccurrences(scriptContent, varName) ==
    LET at == {i \in 0..Len(scriptContent) : WordAt(scriptContent, varName, i)}
        nth[k \in 0..Cardinality(at)] ==
            IF k = 0 THEN -1 ELSE Least({i \in at : i > nth[k - 1]})
    IN  [k \in 1..Cardinality(at) |->
            CountChar(Slice(scriptContent, 0, nth[k]), "\n") + 1]

\* `(window.${varName} || {})`
WindowGuard(varName) ==
    <<"(", "w", "i", "n", "d", "o", "w", ".">> \o varName
        \o <<" ", "|", "|", " ", "{", "}", ")">>

\* line.replace(new RegExp(`\\b${varName}\\b`), `(window.${varName} || {})`)
GuardFirstWord(line, varName) ==
    LET at == {i \in 0..Len(line) : WordAt(line, varName, i)}
    IN  IF at = {} THEN line
        ELSE Slice(line, 0, Least(at)) \o WindowGuard(varName)
                 \o SliceFrom(line, Least(at) + Len(varName))

\* `let ${varName} = window.${varName} || {}; // Added declaration to fix undefined error`
WindowDeclaration(varName) ==
    <<"l", "e", "t", " ">> \o varName \o <<" ", "=", " ", "w", "i", "n", "d",
      "o", "w", ".">> \o varName \o <<" ", "|", "|", " ", "{", "}", ";">>

\* the declaration of lines 1498-1499 (its trailing comment left out)
FallbackDeclaration(varName) ==
    <<"l", "e", "t", " ">> \o varName \o
        <<" ", "=", " ", "{", " ", "u", "n", "i", "f", "o", "r", "m", "s",
          ":", " ", "{", " ", "v", "a", "l", "u", "e", ":", " ", "{", " ",
          "x", ":", " ", "0", ",", " ", "y", ":", " ", "0", " ", "}", " ",
          "}", " ", "}", ";">>

NoFields == [lineNumber |-> -1, original |-> <<>>, replacement |-> <<>>]

\* lines 1799-1860: the catch of the parse, on the fields the four regular
\* expressions find in the reply (lineNumber -1: no match)
ExtractManually(scriptContent, varName, fields) ==
    LET scriptLines == Split(scriptContent, "\n")
        occurrences == VariableOccurrences(scriptContent, varName)
        hasLine == {k \in 1..Len(scriptLines) : Includes(scriptLines[k], varName)}
    IN  IF fields.lineNumber >= 0
           /\ (fields.original # <<>> \/ fields.replacement # <<>>) THEN
            [success |-> TRUE, how |-> "fields",
             fixes |-> <<[lineNumber |-> fields.lineNumber,
                          original |->
                              IF fields.original # <<>> THEN fields.original
                              ELSE IF fields.lineNumber \in 1..Len(scriptLines)
                              THEN scriptLines[fields.lineNumber] ELSE <<>>,
                          replacement |->
                              IF fields.replacement # <<>> THEN fields.replacement
                              ELSE WindowDeclaration(varName)]>>]
        ELSE IF Len(occurrences) > 0 THEN
            [success |-> TRUE, how |-> "first-occurrence",
             fixes |-> <<[lineNumber |-> occurrences[1],
                          original |-> scriptLines[occurrences[1]],
                          replacement |->
                              GuardFirstWord(scriptLines[occurrences[1]], varName)]>>]
        ELSE IF hasLine # {} THEN
            [success |-> TRUE, how |-> "first-line",
             fixes |-> <<[lineNumber |-> Least(hasLine),
                          original |-> scriptLines[Least(hasLine)],
                          replacement |->
                              <<"l", "e", "t", " ">> \o varName
                                  \o <<" ", "=", " ", "{", "}", ";", "\n">>
                                  \o scriptLines[Least(hasLine)]]>>]
        ELSE [success |-> FALSE, how |-> "none", fixes |-> <<>>]

\* getVariableFixFromAI for a script that declares varName in no block
\* (checkConditionalDeclaration finds nothing) and the reply at hand
getVariableFixFromAI(scriptContent, varName, response) ==
    IF response.status # "ok" THEN
        \* axios.post rejects or choices[0].message is missing: lines 1862-1865
        [success |-> FALSE, how |-> "error", fixes |-> <<>>]
    ELSE IF response.fenced THEN
        IF response.body \in {"array", "object"}
        THEN [success |-> TRUE, how |-> "json", fixes |-> response.fixes]
        ELSE ExtractManually(scriptContent, varName, response.fields)
    ELSE IF response.body = "array" /\ response.fixes # <<>>
        THEN [success |-> TRUE, how |-> "json", fixes |-> response.fixes]
        ELSE ExtractManually(scriptContent, varName, response.fields)

\* lines 1418-1508 for the fix result the oracle step gave: the script put
\* back into the document, the fixes counted, and the way the fix was found
RemediateWith(scriptContent, varName, fixResult) ==
    IF fixResult.success /\ Len(fixResult.fixes) > 0 THEN
        [fixed |-> ApplyVariableFixes(scriptContent, fixResult.fixes, varName).fixed,
         fixCount |-> ApplyVariableFixes(scriptContent, fixResult.fixes, varName).fixCount,
         how |-> fixResult.how]
    ELSE
        [fixed |-> Join(<<FallbackDeclaration(varName)>>
                            \o Split(scriptContent, "\n"), "\n"),
         fixCount |-> 1, how |-> "declared"]

\* lines 1416-1508 for a script that references varName, the oracle asked once
RemediateVariable(scriptContent, varName, response) ==
    IF Len(VariableOccurrences(scriptContent, varName)) = 0 THEN
        [fixed |-> scriptContent, fixCount |-> 0, how |-> "not-referenced"]
    ELSE CHOOSE r \in {RemediateWith(scriptContent, varName, fixResult) :
                          fixResult \in {getVariableFixFromAI(scriptContent, varName,
                                                             response)}} : TRUE

ReplyScripts == {
    <<"a", "=", "v", ";", "\n", "b", "=", "1", ";">>,
    <<"b", "=", "1", ";", "\n", "v", "=", "2", ";">>,
    <<"v", "(", ")", ";">>,
    <<"a", "v", "=", "1", ";">>}

ReplyFields ==
    {[lineNumber |-> n, original |-> o, replacement |-> r] :
        n \in {-1, 0, 1, 2}, o \in {<<>>, <<"a", "=", "v", ";">>},
        r \in {<<>>, <<"l", "e", "t", " ", "v", ";">>}}

\* the replies: a failed request, JSON (an array of fixes or one fix object)
\* with or without a fence, and text that is no JSON.  What the regular
\* expressions find in a fix object is the object's own fields.
VariableReplies ==
    {[status |-> "failed", fenced |-> FALSE, body |-> "invalid",
      fixes |-> <<>>, fields |-> NoFields]}
    \cup {[status |-> "ok", fenced |-> f, body |-> "array",
           fixes |-> fx, fields |-> NoFields] :
            f \in BOOLEAN,
            fx \in {<<>>} \cup {<<x>> : x \in VariableFixSet}}
    \cup {[status |-> "ok", fenced |-> f, body |-> "object", fixes |-> <<x>>,
           fields |-> [lineNumber |-> x.lineNumber, original |-> x.original,
                       replacement |-> x.replacement]] :
            f \in BOOLEAN, x \in VariableFixSet}
    \cup {[status |-> "ok", fenced |-> f, body |-> "invalid",
           fixes |-> <<>>, fields |-> fs] :
            f \in BOOLEAN, fs \in ReplyFields}

InitReply ==
    /\ pc = "remediate"
    /\ source \in ReplyScripts
    /\ reply \in VariableReplies
    /\ issues = <<>>
    /\ patched = NoResult
    /\ ScriptsIdle
    /\ FileIdle

\* lines 1412-1508 for the reply the oracle gave
Remediate ==
    /\ pc = "remediate"
    /\ patched' = RemediateVariable(source, VariableName, reply)
    /\ pc' = "remediated"
    /\ UNCHANGED <<fileVars, source, issues, reply, scriptVars>>

NextReply == Remediate

SpecReply == InitReply /\ [][NextReply]_vars

\* no extraction step gets a fix out of the reply: it is no JSON and the
\* field expressions find no line number or neither text
Unparseable(response) ==
    /\ response.status = "ok"
    /\ response.body = "invalid"
    /\ \/ response.fields.lineNumber < 0
       \/ (response.fields.original = <<>> /\ response.fields.replacement = <<>>)

\* line is a declaration of varName
Declares(line, varName) ==
    \E kw \in {<<"l", "e", "t", " ">>, <<"v", "a", "r", " ">>,
               <<"c", "o", "n", "s", "t", " ">>} :
        OccursAt(line, kw \o varName, 0)

\* C24: when the oracle's reply cannot be parsed by any extraction step, the
\* fix applied to a script that references the identifier is a placeholder
\* declaration of it prepended as the first line, with the script's existing
\* lines unchanged.
C24_PlaceholderPrepended ==
    (pc = "remediated" /\ Unparseable(reply) /\ patched.how # "not-referenced")
        => LET after == Split(patched.fixed, "\n")
           IN  /\ Declares(after[1], VariableName)
               /\ Tail(after) = Split(source, "\n")
               /\ patched.fixCount = 1

---------------------------------------------------------------------------
(* getTargetedFunctionFixes: replacements that are not all comment lines *)

\* the oracle's reply holds a replacement with a line that is no comment
SomeRejected(response) ==
    /\ response.status = "ok"
    /\ response.body = "array"
    /\ \E k \in 1..Len(response.fixes) : ~AllCommented(response.fixes[k].replacement)

\* C25: a replacement suggested by the oracle that holds a line not starting
\* with a comment marker is never returned by getTargetedFunctionFixes, and
\* the mechanical per-line comment-out replacement of the block is returned
\* in its place, so that the problem block still receives a fix.
C25_RejectedFallsBack ==
    (pc = "function-fixed")
        => LET returned == getTargetedFunctionFixes(source, MissingFunction,
                                                    issues, reply)
               manual == ManualFixes(Split(source, "\n"), issues, MissingFunction)
           IN  /\ \A n \in 1..Len(returned) : AllCommented(returned[n].replacement)
               /\ SomeRejected(reply) =>
                     /\ \E n \in 1..Len(returned), k \in 1..Len(manual) :
                           returned[n] = manual[k]
                     /\ patched.fixCount = 1

---------------------------------------------------------------------------
(* findCodeBlock: the span and the implicated line *)

\* C26: for every line index idx of a script, findCodeBlock returns a span
\* with 0 <= startLine <= idx <= endLine < number of lines: the span is never
\* inverted and always contains the implicated line, also for a single-line
\* call statement that itself ends with ";".
C26_SpanContainsLine ==
    (pc = "function-fixed")
        => \A idx \in 0..(Len(Split(source, "\n")) - 1) :
              LET blockInfo == findCodeBlock(Split(source, "\n"), idx)
              IN  /\ 0 <= blockInfo.startLine
                  /\ blockInfo.startLine <= idx
                  /\ idx <= blockInfo.endLine
                  /\ blockInfo.endLine < Len(Split(source, "\n"))

---------------------------------------------------------------------------
(* fixUndefinedVariables on a document: several identifiers, several
   script blocks *)

\* lines 1412-1508 for one identifier and one script of the input document:
\* the fixed script goes into the document by replacing the script tag as it
\* was in the pass's input
PutIntoDocument(st, script, varName, r) ==
    LET fixedScriptTag == ReplaceFirst(script.fullMatch, script.scriptContent, r.fixed)
    IN  IF r.how = "not-referenced" THEN st
        ELSE [fixedHtml |-> ReplaceFirst(st.fixedHtml, script.fullMatch, fixedScriptTag),
              fixCount |-> st.fixCount + r.fixCount,
              log |-> Append(st.log, [varName |-> varName, how |-> r.how,
                                      counted |-> r.fixCount])]

\* one iteration of the loop over the scripts, for one identifier
RemediateInDocument(st, script, varName, response) ==
    CHOOSE next \in {PutIntoDocument(st, script, varName, r) :
                        r \in {RemediateVariable(script.scriptContent, varName,
                                                 response)}} : TRUE

RECURSIVE RemediateScripts(_, _, _, _, _)
\* for (let i = 0; i < scripts.length; i++), from script number k
RemediateScripts(st, scripts, k, varName, response) ==
    IF k > Len(scripts) THEN st
    ELSE RemediateScripts(RemediateInDocument(st, scripts[k], varName, response),
                          scripts, k + 1, varName, response)

RECURSIVE RemediateNames(_, _, _, _, _)
\* for (const varName of variableNames), from name number n
RemediateNames(st, scripts, variableNames, n, responses) ==
    IF n > Len(variableNames) THEN st
    ELSE RemediateNames(
             RemediateScripts(st, scripts, 1, variableNames[n], responses[n]),
             scripts, variableNames, n + 1, responses)

\* fixUndefinedVariables(html) for the identifiers the page reported as
\* undefined and the replies the oracle gives for them
fixUndefinedVariables(doc, variableNames, responses) ==
    IF Len(extractScripts(doc)) = 0 \/ Len(variableNames) = 0
    THEN [fixedHtml |-> doc, fixCount |-> 0, log |-> <<>>]
    ELSE RemediateNames([fixedHtml |-> doc, fixCount |-> 0, log |-> <<>>],
                        extractScripts(doc), variableNames, 1, responses)

OtherVariable == <<"w">>

ScriptElement(content) == ScriptOpen \o <<">">> \o content \o ScriptClose

\* one script with both identifiers, one with the first only, two scripts
\* with one identifier each
VariableDocs == {
    ScriptElement(<<"a", "=", "v", ";", "\n", "b", "=", "w", ";">>),
    ScriptElement(<<"w", "(", "v", ")", ";">>),
    ScriptElement(<<"v", "(", ")", ";">>),
    ScriptElement(<<"v", "(", ")", ";">>) \o ScriptElement(<<"w", "(", ")", ";">>)}

UndefinedNames ==
    {<<VariableName>>, <<OtherVariable>>, <<VariableName, OtherVariable>>,
     <<OtherVariable, VariableName>>}

\* a failed request, a reply of prose, a fenced empty array
DocumentReplies ==
    {[status |-> "failed", fenced |-> FALSE, body |-> "invalid",
      fixes |-> <<>>, fields |-> NoFields],
     [status |-> "ok", fenced |-> FALSE, body |-> "invalid",
      fixes |-> <<>>, fields |-> NoFields],
     [status |-> "ok", fenced |-> TRUE, body |-> "array",
      fixes |-> <<>>, fields |-> NoFields]}

InitDocument ==
    /\ pc = "document"
    /\ source \in VariableDocs
    /\ issues \in UndefinedNames
    /\ reply \in [1..2 -> DocumentReplies]
    /\ patched = NoResult
    /\ ScriptsIdle
    /\ FileIdle

\* lines 1369-1512 for the reported identifiers and the oracle's replies
FixUndefinedVariables ==
    /\ pc = "document"
    /\ patched' = fixUndefinedVariables(source, issues, reply)
    /\ pc' = "document-fixed"
    /\ UNCHANGED <<fileVars, source, issues, reply, scriptVars>>

NextDocument == FixUndefinedVariables

SpecDocument == InitDocument /\ [][NextDocument]_vars

\* the text a counted remediation puts into the script
PatchText(entry) ==
    IF entry.how = "declared" THEN FallbackDeclaration(entry.varName)
    ELSE WindowGuard(entry.varName)

\* C27: every fix a pass counts is present in the document the pass
\* returns: no fix is counted for a replacement that did not change the
\* returned document, and when two distinct identifiers are remediated in
\* the same script block the returned document holds both patches.
C27_CountedFixesPresent ==
    (pc = "document-fixed")
        => /\ (patched.fixedHtml = source) => patched.fixCount = 0
           /\ \A k \in 1..Len(patched.log) :
                 (patched.log[k].counted > 0)
                     => Includes(patched.fixedHtml, PatchText(patched.log[k]))

---------------------------------------------------------------------------
(* fixUnbalanced applied to its own output *)

\* C28: the deterministic patcher is idempotent: the detector finds no
\* Issues in the output of fixUnbalanced, and fixUnbalanced applied to its
\* own output returns the same text with fixCount 0; the marker that
\* replaces a stray ")" is not itself reported as an extra-close.
C28_PatcherIdempotent ==
    (pc = "fixed")
        => /\ detectUnbalancedParentheses(patched.fixed) = <<>>
           /\ fixUnbalanced(patched.fixed) = [fixed |-> patched.fixed, fixCount |-> 0]

---------------------------------------------------------------------------
(* The order of the Issues and the running offset of fixUnbalanced *)

\* the growth of the text by the first k edits of fixUnbalanced
EditGrowth(iss, k) ==
    Cardinality({m \in 1..k : iss[m].type = "missing-close"})
        + (Len(RemovedMarker) - 1)
              * Cardinality({m \in 1..k : iss[m].type = "extra-close"})

\* the text after the first k edits of fixUnbalanced
AfterEdits(k) == ApplyParenFixes(source, SubSeq(issues, 1, k), 1, 0)

\* C29: the detector returns its Issues in strictly ascending index order,
\* every extra-close before every missing-close, so that with the single
\* running offset of fixUnbalanced each edit lands on the character its
\* Issue refers to: the marker takes the place of the stray ")" and the ")"
\* is put directly after the unclosed "(", the text before and after the
\* edit being the original text.
C29_AscendingIssues ==
    (pc = "fixed")
        => /\ \A k, l \in 1..Len(issues) :
                 k < l => /\ issues[k].index < issues[l].index
                          /\ ~(issues[k].type = "missing-close"
                                   /\ issues[l].type = "extra-close")
           /\ patched.fixed = AfterEdits(Len(issues))
           /\ \A k \in 1..Len(issues) :
                 LET at == issues[k].index
                     before == AfterEdits(k - 1)
                     after == AfterEdits(k)
                     offset == EditGrowth(issues, k - 1)
                 IN  /\ before[at + offset + 1] = source[at + 1]
                     /\ SliceFrom(before, at + offset) = SliceFrom(source, at)
                     /\ Slice(after, 0, at + offset) = Slice(before, 0, at + offset)
                     /\ IF issues[k].type = "extra-close"
                        THEN /\ source[at + 1] = ")"
                             /\ after = Slice(before, 0, at + offset) \o RemovedMarker
                                            \o SliceFrom(source, at + 1)
                        ELSE /\ source[at + 1] = "("
                             /\ after = Slice(before, 0, at + offset) \o <<"(", ")">>
                                            \o SliceFrom(source, at + 1)

\* an extra ")" followed by two unclosed "(": three edits, the later ones
\* shifted by the earlier ones
C29_Witness ==
    /\ pc = "fixed"
    /\ Len(issues) = 3
    /\ issues[1].type = "extra-close"
    /\ issues[2].type = "missing-close"
    /\ issues[3].type = "missing-close"
    /\ patched.fixCount = 3

---------------------------------------------------------------------------
(* fixMissingStyleTags: the standalone strategy and the bare rule text *)

\* the 0-based positions at which t occurs in s
OccurrencesOf(s, t) == {i \in 0..(Len(s) - Len(t)) : OccursAt(s, t, i)}

\* position i lies inside a style element: the nearest "<style" before it
\* comes after the nearest "</style>" before it
InsideStyle(s, i) ==
    LET opened == {j \in 0..(i - 1) : OccursAt(s, <<"<", "s", "t", "y", "l", "e">>, j)}
        closed == {j \in 0..(i - 1) :
                      OccursAt(s, <<"<", "/", "s", "t", "y", "l", "e", ">">>, j)}
    IN  /\ opened # {}
        /\ \A j \in closed : \E o \in opened : o > j

\* the pass takes its secondary strategy: no common pattern gives CSS, and
\* the standalone pattern does
StandaloneApplies(doc) ==
    /\ \A k \in 1..4 :
          ~(commonPatterns(doc)[k].found /\ isLikelyCss(commonPatterns(doc)[k].groups[1]))
    /\ StandaloneFix(doc).fixCount = 1

\* C30: when fixMissingStyleTags applies its standalone strategy, the
\* detected CSS rule text occurs in the returned document as often as in the
\* input and no longer outside a style element: the bare text is wrapped or
\* moved, not left in place next to a wrapped copy before </head> or <body.
C30_WrappedNotDuplicated ==
    (pc = "style-done" /\ StandaloneApplies(html))
        => LET potentialCss == FirstStandalone(html, 0).groups[1]
           IN  /\ Cardinality(OccurrencesOf(result, potentialCss)) =
                      Cardinality(OccurrencesOf(html, potentialCss))
               /\ \A i \in OccurrencesOf(result, potentialCss) : InsideStyle(result, i)

=========================================================================
